---------------------------- MODULE Spec2Model ----------------------------
(***************************************************************************)
(* serialviz: the CSV pipeline (decodeStream, findLines, parseFields,      *)
(* parseNumber, parseRow), the TableBuffer ring buffer and the part of     *)
(* AppState that feeds device output into the log and the table.           *)
(*                                                                         *)
(* Strings are sequences of character codes (charCodeAt), JavaScript's     *)
(* null is the empty tuple and a present value v is <<v>>.  A float64 is a *)
(* record [nan, neg, mag, exp] that stands for NaN or for the number       *)
(* (-1)^neg * mag * 10^exp, so that NaN and the two zeros are distinct.    *)
(***************************************************************************)
EXTENDS Integers, Sequences, FiniteSets, TLC

VARIABLES
  \* TableBuffer
  buf,        \* a TableBuffer object: its private fields and rowLimit
  pushed,     \* history: the data rows pushed since the last header / clear
  last,       \* the last TableBuffer call and what it returned
  \* findLines
  lnInput,    \* the whole text the input iterator will deliver
  lnRest,     \* the part of lnInput not yet delivered
  lnFed,      \* history: the chunks delivered so far
  lnPrefix,   \* findLines' local variable prefix
  lnOut,      \* the lines yielded so far
  lnPc,       \* "reading" inside the for-await loop, "done" after the last yield
  \* parseFields
  csvRecord,  \* the field list a line is formatted from, or null for a raw line
  csvLine,    \* the line given to parseFields
  csvFields,  \* what parseFields returned: null or the field list
  csvPc,      \* "format", "parse", "done"
  \* AppState
  app,        \* an AppState object: #log, #linesAdded, #rows, #plotSettings
  appLast,    \* the last AppState call and its argument
  appPushed,  \* history: the lines pushed into the log, in order
  \* decodeStream
  dcText,     \* the string whose UTF-8 encoding the reader delivers
  dcBytes,    \* all the bytes the reader delivers: the encoding of dcText,
              \* or that followed by bytes that are not valid UTF-8
  dcRest,     \* the bytes the reader has not delivered yet
  dcReads,    \* how many times reader.read() has resolved with a chunk
  dcDecoder,  \* the TextDecoder: its pending bytes and flags
  dcGen,      \* the generator: "suspendedStart", "awaitingRead",
              \* "suspendedYield", "completed"
  dcAt,       \* the yield the generator is suspended at: "loop" or "flush"
  dcQueue,    \* the consumer's calls (next, return, throw) not yet settled
  dcSettled,  \* the settled calls in order: [kind, value]
  dcReleases, \* how many times reader.releaseLock() was called
  dcLocked,   \* whether the reader still holds the stream's lock
  dcEnd,      \* history: how the iteration ended
  \* parseRow
  rowLine,    \* the line given to parseRow
  rowResult,  \* what the last parseRow call returned
  rowCalls,   \* how many times parseRow was called
  \* a TableBuffer and the slices taken from it
  vwBuf,      \* a TableBuffer read by a renderer
  vwTwin,     \* a TableBuffer constructed when vwBuf was last cleared and
              \* given the same pushes
  vwSeen,     \* what the last slice() returned, null after any other call
  vwHeld,     \* a slice the renderer kept from an earlier slice()
  vwOp,       \* the last call
  \* parseNumber
  numInput,   \* the string given to parseNumber
  numResult,  \* what parseNumber(numInput) returned
  numString,  \* `${n}` of the number n returned, null before it is taken
  numAgain,   \* what parseNumber(numString) returned
  numPc,      \* "parse", "format", "again", "done"
  \* the TableBuffer of the revision that keeps a list of tables
  mt,         \* the TableBuffer: rowLimit, #tables, #tablesSeen, #rowCount
  mtPushed,   \* history: the data rows pushed since construction or clear
  \* Port
  port,  \* an AppState object that receives status requests
  portLast, \* the last call on it, its arguments, result and events
  \* Tabs
  tabs,  \* for each browser tab, its AppState, its SerialPortDevice, the promises and calls in flight, its pending timers and storage events, and its handle of the serial port
  tabsLast  \* the last step: the tab, the step and the DeviceOutput call it made

tableVars == <<buf, pushed, last>>

linesVars == <<lnInput, lnRest, lnFed, lnPrefix, lnOut, lnPc>>

csvVars == <<csvRecord, csvLine, csvFields, csvPc>>

appVars == <<app, appLast, appPushed>>

decodeVars == <<dcText, dcBytes, dcRest, dcReads, dcDecoder, dcGen, dcAt, dcQueue,
                dcSettled, dcReleases, dcLocked, dcEnd>>

rowVars == <<rowLine, rowResult, rowCalls>>

viewVars == <<vwBuf, vwTwin, vwSeen, vwHeld, vwOp>>

numVars == <<numInput, numResult, numString, numAgain, numPc>>

multiVars == <<mt, mtPushed>>

portVars == <<port, portLast>>

tabsVars == <<tabs, tabsLast>>

vars == <<buf, pushed, last, lnInput, lnRest, lnFed, lnPrefix, lnOut, lnPc,
          csvRecord, csvLine, csvFields, csvPc, app, appLast, appPushed,
          dcText, dcBytes, dcRest, dcReads, dcDecoder, dcGen, dcAt, dcQueue,
          dcSettled, dcReleases, dcLocked, dcEnd,
          rowLine, rowResult, rowCalls,
          vwBuf, vwTwin, vwSeen, vwHeld, vwOp,
          numInput, numResult, numString, numAgain, numPc,
          mt, mtPushed,
          port, portLast,
          tabs, tabsLast>>

-----------------------------------------------------------------------------
(* Bounds of the model *)

MaxLimit == 2     \* largest rowLimit a TableBuffer is constructed with
MaxRows == 3      \* data rows pushed into one table generation
MaxTables == 2    \* table generations started
MaxText == 3      \* characters of a text given to findLines
MaxChunks == 3    \* chunks a text is cut into
MaxLine == 4      \* characters of a raw line given to parseFields
MaxField == 2     \* characters of a field of a formatted record
MaxFields == 2    \* fields of a formatted record
MaxLines == 4     \* lines a device sends in one session
MaxChars == 2     \* characters of a string given to decodeStream as bytes
MaxReads == 3     \* chunks the reader delivers
MaxCalls == 3     \* calls the consumer makes on the iterator
MaxQueue == 2     \* calls of the consumer that wait at one time
MaxParses == 2    \* calls of parseRow in a row
MaxSessions == 1  \* times an AppState starts connecting
MaxPortLines == 2 \* lines logged in one session with status requests
MaxConnects == 2  \* times the two tabs start connecting, together
MaxNumber == 4    \* characters of a string given to parseNumber

\* The limits of AppState, scaled down from the values of the source (100,
\* 100, 10000 and 500) so that the model reaches them; zoomRangeStart stays
\* below tableBufferLimit as in the source.
logHeadLimit == 2
logTailLimit == 2
tableBufferLimit == 3
zoomRangeStart == 2

-----------------------------------------------------------------------------
(* JavaScript values *)

Null == <<>>
Some(v) == <<v>>
IsNull(x) == x = <<>>
Val(x) == x[1]

\* the number (-1)^neg * mag * 10^exp in its one form: mag is no multiple of
\* ten, and exp is 0 for the zeros
RECURSIVE Decimal(_, _, _)
Decimal(neg, mag, exp) ==
  IF mag = 0 THEN [nan |-> FALSE, neg |-> neg, mag |-> 0, exp |-> 0]
  ELSE IF mag % 10 = 0 THEN Decimal(neg, mag \div 10, exp + 1)
  ELSE [nan |-> FALSE, neg |-> neg, mag |-> mag, exp |-> exp]

Num(neg, mag) == Decimal(neg, mag, 0)
NaN == [nan |-> TRUE, neg |-> FALSE, mag |-> 0, exp |-> 0]
Zero == Num(FALSE, 0)

Min(a, b) == IF a < b THEN a ELSE b
Max(a, b) == IF a < b THEN b ELSE a

\* `${n}` for a non-negative integer
RECURSIVE DecimalString(_)
DecimalString(n) ==
  IF n < 10 THEN <<48 + n>> ELSE DecimalString(n \div 10) \o <<48 + (n % 10)>>

-----------------------------------------------------------------------------
(* Range *)

\* new Range(start, end); the constructor throws when end < start, so only
\* ordered pairs are ranges.
range(start, end) == [start |-> start, end |-> end]

RangeLength(r) == r.end - r.start

-----------------------------------------------------------------------------
(* Float64Array *)

\* new Float64Array(n): n zeros
NewFloat64Array(n) == [k \in 1..n |-> Zero]

\* col.copyWithin(0, 1): every element moves one place to the left, the last
\* one stays
CopyWithin01(col) ==
  [k \in 1..Len(col) |-> IF k < Len(col) THEN col[k + 1] ELSE col[k]]

\* col[y] = v for a 0-based index y; an index outside the array is ignored,
\* and undefined is stored as NaN
SetAt(col, y, v) ==
  IF y >= 0 /\ y < Len(col) THEN [col EXCEPT ![y + 1] = v] ELSE col

\* values.at(i) for a 0-based index i >= 0, converted to float64
ValueAt(values, i) == IF i < Len(values) THEN values[i + 1] ELSE NaN

\* col.slice(a, b) for 0 <= a, with the clamping of TypedArray.prototype.slice
TypedSlice(col, a, b) ==
  LET lo == Min(Max(a, 0), Len(col))
      hi == Min(Max(b, 0), Len(col))
  IN  IF hi <= lo THEN <<>> ELSE [k \in 1..(hi - lo) |-> col[lo + k]]

-----------------------------------------------------------------------------
(* TableBuffer *)

NewTableBuffer(rowLimit) ==
  [rowLimit |-> rowLimit, tablesSeen |-> 0, columnNames |-> Null,
   rowStart |-> 0, rowEnd |-> 0, columns |-> Null]

BufKey(b) == b.tablesSeen

BufRange(b) == range(b.rowStart, b.rowEnd)

\* default names counted from 0: "Column 0", "Column 1", ...
DefaultColumnName_FromZero(i) == <<67, 111, 108, 117, 109, 110, 32>> \o DecimalString(i)

\* "Column 1", "Column 2", ...
DefaultColumnName(i) == <<67, 111, 108, 117, 109, 110, 32>> \o DecimalString(i + 1)

\* StartTable that keeps the retained range of the previous table
StartTable_KeepRange(b, columnNames) ==
  [b EXCEPT !.tablesSeen = b.tablesSeen + 1,
            !.columnNames = Some(columnNames),
            !.columns = Some([i \in 1..Len(columnNames) |->
                                NewFloat64Array(b.rowLimit)])]

StartTable(b, columnNames) ==
  [b EXCEPT !.tablesSeen = b.tablesSeen + 1,
            !.columnNames = Some(columnNames),
            !.rowStart = 0,
            !.rowEnd = 0,
            !.columns = Some([i \in 1..Len(columnNames) |->
                                NewFloat64Array(b.rowLimit)])]

\* push of a data row that scrolls a full buffer but leaves rowStart alone
PushData_NoRowStart(b, values) ==
  LET b1 == IF IsNull(b.columnNames)
            THEN StartTable(b, [i \in 1..Len(values) |-> DefaultColumnName(i - 1)])
            ELSE b
      rowEnd == b1.rowEnd + 1
      full == rowEnd > b1.rowLimit
      cols1 == IF full
               THEN [i \in 1..Len(Val(b1.columns)) |-> CopyWithin01(Val(b1.columns)[i])]
               ELSE Val(b1.columns)
      y == Min(rowEnd, b1.rowLimit) - 1
  IN  [b1 EXCEPT !.rowEnd = rowEnd,
                 !.columns = Some([i \in 1..Len(cols1) |->
                                     SetAt(cols1[i], y, ValueAt(values, i - 1))])]

\* push of a data row that, on a full buffer, overwrites the newest row and
\* gives the new row its index
PushData_ReuseIndex(b, values) ==
  LET b1 == IF IsNull(b.columnNames)
            THEN StartTable(b, [i \in 1..Len(values) |-> DefaultColumnName(i - 1)])
            ELSE b
      full == b1.rowEnd + 1 > b1.rowLimit
      rowEnd == IF full THEN b1.rowEnd ELSE b1.rowEnd + 1
      y == rowEnd - b1.rowStart - 1
  IN  [b1 EXCEPT !.rowEnd = rowEnd,
                 !.columns = Some([i \in 1..Len(Val(b1.columns)) |->
                                     SetAt(Val(b1.columns)[i], y, ValueAt(values, i - 1))])]

\* the "data" case of push
PushData(b, values) ==
  LET b1 == IF IsNull(b.columnNames)
            THEN StartTable(b, [i \in 1..Len(values) |-> DefaultColumnName(i - 1)])
            ELSE b
      rowEnd == b1.rowEnd + 1
      full == rowEnd > b1.rowLimit
      cols1 == IF full
               THEN [i \in 1..Len(Val(b1.columns)) |-> CopyWithin01(Val(b1.columns)[i])]
               ELSE Val(b1.columns)
      rowStart == IF full THEN b1.rowStart + 1 ELSE b1.rowStart
      y == rowEnd - rowStart - 1
  IN  [b1 EXCEPT !.rowEnd = rowEnd,
                 !.rowStart = rowStart,
                 !.columns = Some([i \in 1..Len(cols1) |->
                                     SetAt(cols1[i], y, ValueAt(values, i - 1))])]

BufPush(b, row) ==
  IF row.kind = "header" THEN StartTable(b, row.fields) ELSE PushData(b, row.values)

\* clear that keeps the count of tables seen
BufClear_KeepKey(b) ==
  [b EXCEPT !.columnNames = Null, !.rowStart = 0, !.rowEnd = 0, !.columns = Null]

\* BufClear that leaves the column names of the last table
BufClear_KeepNames(b) ==
  [b EXCEPT !.tablesSeen = 0, !.rowStart = 0, !.rowEnd = 0]

BufClear(b) ==
  [b EXCEPT !.tablesSeen = 0, !.columnNames = Null, !.rowStart = 0,
            !.rowEnd = 0, !.columns = Null]

\* the column key `${tablesSeen}-${name}`
ColumnKey(b, name) == DecimalString(b.tablesSeen) \o <<45>> \o name

\* slice that indexes the storage by the row index itself, forgetting that the
\* storage starts at rowStart
BufSlice_Absolute(b, arg) ==
  IF IsNull(b.columnNames) THEN [status |-> "null", value |-> Null]
  ELSE
    LET rowRange == IF IsNull(arg) THEN BufRange(b) ELSE Val(arg)
    IN  IF ~IsNull(arg) /\ (rowRange.start < b.rowStart \/ rowRange.end > b.rowEnd)
        THEN [status |-> "throw", value |-> Null]
        ELSE
          LET names == Val(b.columnNames)
          IN  [status |-> "ok",
               value |-> Some([key |-> b.tablesSeen,
                               columnNames |-> names,
                               range |-> rowRange,
                               columns |-> [i \in 1..Len(names) |->
                                  [key |-> ColumnKey(b, names[i]),
                                   name |-> names[i],
                                   range |-> rowRange,
                                   values |-> TypedSlice(Val(b.columns)[i],
                                                rowRange.start, rowRange.end)]]])]

\* slice that clamps the requested range to the retained one instead of
\* throwing
BufSlice_Clamp(b, arg) ==
  IF IsNull(b.columnNames) THEN [status |-> "null", value |-> Null]
  ELSE
    LET asked == IF IsNull(arg) THEN BufRange(b) ELSE Val(arg)
        lo == Min(Max(asked.start, b.rowStart), b.rowEnd)
        rowRange == range(lo, Max(lo, Min(asked.end, b.rowEnd)))
        names == Val(b.columnNames)
    IN  [status |-> "ok",
         value |-> Some([key |-> b.tablesSeen,
                         columnNames |-> names,
                         range |-> rowRange,
                         columns |-> [i \in 1..Len(names) |->
                            [key |-> ColumnKey(b, names[i]),
                             name |-> names[i],
                             range |-> rowRange,
                             values |-> TypedSlice(Val(b.columns)[i],
                                          rowRange.start - b.rowStart,
                                          rowRange.end - b.rowStart)]]])]

\* slice(rowRange?): arg is Null for a call without argument.  The result is
\* [status, value]: "null", "throw", or "ok" with the TableSlice.
BufSlice(b, arg) ==
  IF IsNull(b.columnNames) THEN [status |-> "null", value |-> Null]
  ELSE
    LET rowRange == IF IsNull(arg) THEN BufRange(b) ELSE Val(arg)
    IN  IF ~IsNull(arg) /\ (rowRange.start < b.rowStart \/ rowRange.end > b.rowEnd)
        THEN [status |-> "throw", value |-> Null]
        ELSE
          LET sliceStart == rowRange.start - b.rowStart
              sliceEnd == rowRange.end - b.rowStart
              names == Val(b.columnNames)
          IN  [status |-> "ok",
               value |-> Some([key |-> b.tablesSeen,
                               columnNames |-> names,
                               range |-> rowRange,
                               columns |-> [i \in 1..Len(names) |->
                                  [key |-> ColumnKey(b, names[i]),
                                   name |-> names[i],
                                   range |-> rowRange,
                                   values |-> TypedSlice(Val(b.columns)[i],
                                                         sliceStart, sliceEnd)]]])]

-----------------------------------------------------------------------------
(* Inputs of the TableBuffer model *)

HeaderRow(fields) == [kind |-> "header", fields |-> fields]
DataRow(values) == [kind |-> "data", values |-> values]

\* header rows "A" and "A,B"
TableHeaders == {HeaderRow(<<(<<65>>)>>), HeaderRow(<<(<<65>>), (<<66>>)>>)}

\* data rows of one and of two values
TableData == {DataRow(<<Num(FALSE, 1)>>), DataRow(<<Num(FALSE, 2)>>),
              DataRow(<<Num(FALSE, 1), Num(FALSE, 2)>>),
              DataRow(<<Num(FALSE, 2), Num(FALSE, 1)>>)}

\* the ranges a caller may ask slice for, inside and outside the buffer
SliceRanges ==
  {r \in [start : 0..(MaxRows + 1), end : 0..(MaxRows + 1)] : r.start <= r.end}

-----------------------------------------------------------------------------
(* The TableBuffer as a state machine *)

TableInit ==
  /\ buf \in {NewTableBuffer(n) : n \in 0..MaxLimit}
  /\ pushed = <<>>
  /\ last = [op |-> "new", arg |-> Null, result |-> Null]

TablePushHeader ==
  \E row \in TableHeaders :
    /\ buf.tablesSeen < MaxTables
    /\ buf' = BufPush(buf, row)
    /\ pushed' = <<>>
    /\ last' = [op |-> "push", arg |-> Some(row), result |-> Null]
    /\ UNCHANGED <<linesVars, csvVars, appVars, decodeVars, rowVars, viewVars,
                   numVars, multiVars, portVars, tabsVars>>

TablePushData ==
  \E row \in TableData :
    /\ Len(pushed) < MaxRows
    /\ IsNull(buf.columnNames) => buf.tablesSeen < MaxTables
    /\ buf' = BufPush(buf, row)
    /\ pushed' = Append(pushed, row.values)
    /\ last' = [op |-> "push", arg |-> Some(row), result |-> Null]
    /\ UNCHANGED <<linesVars, csvVars, appVars, decodeVars, rowVars, viewVars,
                   numVars, multiVars, portVars, tabsVars>>

TableSlice ==
  \E arg \in {Null} \cup {Some(r) : r \in SliceRanges} :
    /\ last' = [op |-> "slice", arg |-> arg, result |-> Some(BufSlice(buf, arg))]
    /\ UNCHANGED <<buf, pushed>>
    /\ UNCHANGED <<linesVars, csvVars, appVars, decodeVars, rowVars, viewVars,
                   numVars, multiVars, portVars, tabsVars>>

TableClear ==
  /\ buf' = BufClear(buf)
  /\ pushed' = <<>>
  /\ last' = [op |-> "clear", arg |-> Null, result |-> Null]
  /\ UNCHANGED <<linesVars, csvVars, appVars, decodeVars, rowVars, viewVars,
                 numVars, multiVars, portVars, tabsVars>>

TableNext ==
  TablePushHeader \/ TablePushData \/ TableSlice \/ TableClear

TableIdle ==
  /\ buf = NewTableBuffer(0)
  /\ pushed = <<>>
  /\ last = [op |-> "new", arg |-> Null, result |-> Null]

-----------------------------------------------------------------------------
(* Strings *)

NEWLINE == 10
RETURN == 13
COMMA == 44
QUOTE == 34

\* all strings over an alphabet up to a length
StringsUpTo(chars, n) == UNION {[1..k -> chars] : k \in 0..n}

\* s.slice(a, b) for 0-based a, b >= 0
StrSlice(s, a, b) ==
  LET lo == Min(a, Len(s))
      hi == Min(b, Len(s))
  IN  IF hi <= lo THEN <<>> ELSE [k \in 1..(hi - lo) |-> s[lo + k]]

EndsWith(s, c) == Len(s) > 0 /\ s[Len(s)] = c

\* s.split(/\r?\n/), from 1-based position i with the piece cur begun
RECURSIVE SplitFrom(_, _, _)
SplitFrom(s, i, cur) ==
  IF i > Len(s) THEN <<cur>>
  ELSE IF s[i] = NEWLINE THEN <<cur>> \o SplitFrom(s, i + 1, <<>>)
  ELSE IF s[i] = RETURN /\ i < Len(s) /\ s[i + 1] = NEWLINE
       THEN <<cur>> \o SplitFrom(s, i + 2, <<>>)
  ELSE SplitFrom(s, i + 1, Append(cur, s[i]))

SplitLines(s) == SplitFrom(s, 1, <<>>)

-----------------------------------------------------------------------------
(* findLines *)

\* one turn of the for-await loop that forgets the CR kept in prefix
FindLinesChunk_NoCR(prefix, chunk0) ==
  LET lines == SplitLines(chunk0)
  IN  IF Len(lines) = 1
      THEN [prefix |-> prefix \o lines[1], yielded |-> <<>>]
      ELSE [prefix |-> lines[Len(lines)],
            yielded |-> <<prefix \o lines[1]>> \o SubSeq(lines, 2, Len(lines) - 1)]

\* one turn of the for-await loop: the new prefix and the lines yielded
FindLinesChunk(prefix, chunk0) ==
  LET cr == EndsWith(prefix, RETURN)
      chunk == IF cr THEN <<RETURN>> \o chunk0 ELSE chunk0
      prefix1 == IF cr THEN StrSlice(prefix, 0, Len(prefix) - 1) ELSE prefix
      lines == SplitLines(chunk)
  IN  IF Len(lines) = 1
      THEN [prefix |-> prefix1 \o lines[1], yielded |-> <<>>]
      ELSE [prefix |-> lines[Len(lines)],
            yielded |-> <<prefix1 \o lines[1]>> \o SubSeq(lines, 2, Len(lines) - 1)]

\* the characters of the texts given to findLines: CR, LF and "x"
LineChars == {RETURN, NEWLINE, 120}

LinesInit ==
  /\ lnInput \in StringsUpTo(LineChars, MaxText)
  /\ lnRest = lnInput
  /\ lnFed = <<>>
  /\ lnPrefix = <<>>
  /\ lnOut = <<>>
  /\ lnPc = "reading"

\* the input iterator delivers the next chunk, of any size from 0
LinesChunk ==
  \E n \in 0..Len(lnRest) :
    /\ lnPc = "reading"
    /\ Len(lnFed) < MaxChunks
    /\ LET chunk == StrSlice(lnRest, 0, n)
           r == FindLinesChunk(lnPrefix, chunk)
       IN  /\ lnPrefix' = r.prefix
           /\ lnOut' = lnOut \o r.yielded
           /\ lnFed' = Append(lnFed, chunk)
    /\ lnRest' = StrSlice(lnRest, n, Len(lnRest))
    /\ UNCHANGED <<lnInput, lnPc>>
    /\ UNCHANGED <<tableVars, csvVars, appVars, decodeVars, rowVars, viewVars,
                   numVars, multiVars, portVars, tabsVars>>

\* the end of the input when an empty remainder is not yielded
LinesEnd_SkipEmpty ==
  /\ lnPc = "reading"
  /\ lnRest = <<>>
  /\ lnOut' = IF lnPrefix = <<>> THEN lnOut ELSE Append(lnOut, lnPrefix)
  /\ lnPc' = "done"
  /\ UNCHANGED <<lnInput, lnRest, lnFed, lnPrefix>>
  /\ UNCHANGED <<tableVars, csvVars, appVars, decodeVars, rowVars, viewVars,
                 numVars, multiVars, portVars, tabsVars>>

\* the input iterator is done: the remainder is yielded as the last line
LinesEnd ==
  /\ lnPc = "reading"
  /\ lnRest = <<>>
  /\ lnOut' = Append(lnOut, lnPrefix)
  /\ lnPc' = "done"
  /\ UNCHANGED <<lnInput, lnRest, lnFed, lnPrefix>>
  /\ UNCHANGED <<tableVars, csvVars, appVars, decodeVars, rowVars, viewVars,
                 numVars, multiVars, portVars, tabsVars>>

LinesNext ==
  LinesChunk \/ LinesEnd

LinesIdle ==
  /\ lnInput = <<>>
  /\ lnRest = <<>>
  /\ lnFed = <<>>
  /\ lnPrefix = <<>>
  /\ lnOut = <<>>
  /\ lnPc = "idle"

-----------------------------------------------------------------------------
(* parseNumber *)

\* the white space String.prototype.trim removes, among the characters used
WhiteSpace == {9, 10, 11, 12, 13, 32}

RECURSIVE TrimStart(_)
TrimStart(s) ==
  IF Len(s) > 0 /\ s[1] \in WhiteSpace THEN TrimStart(Tail(s)) ELSE s

RECURSIVE TrimEnd(_)
TrimEnd(s) ==
  IF Len(s) > 0 /\ s[Len(s)] \in WhiteSpace
  THEN TrimEnd(SubSeq(s, 1, Len(s) - 1)) ELSE s

Trim(s) == TrimEnd(TrimStart(s))

IsDigit(c) == c >= 48 /\ c <= 57

RECURSIVE DigitsValue(_)
DigitsValue(s) ==
  IF s = <<>> THEN 0
  ELSE 10 * DigitsValue(SubSeq(s, 1, Len(s) - 1)) + (s[Len(s)] - 48)

AllDigits(s) == \A k \in 1..Len(s) : IsDigit(s[k])

\* the place of the first of the characters cs in s, Len(s) + 1 if none
FirstOf(s, cs) ==
  IF \E k \in 1..Len(s) : s[k] \in cs
  THEN CHOOSE k \in 1..Len(s) : s[k] \in cs /\ \A j \in 1..(k - 1) : s[j] \notin cs
  ELSE Len(s) + 1

\* the place of the last digit that is not "0", 0 if there is none
LastNonZero(digits) ==
  IF \E k \in 1..Len(digits) : digits[k] # 48
  THEN CHOOSE k \in 1..Len(digits) :
         digits[k] # 48 /\ \A j \in (k + 1)..Len(digits) : digits[j] = 48
  ELSE 0

\* the value of an exponent part of optionally signed digits
ExponentValue(exponent) ==
  IF exponent = <<>> THEN 0
  ELSE IF exponent[1] = 45 THEN 0 - DigitsValue(Tail(exponent))
  ELSE IF exponent[1] = 43 THEN DigitsValue(Tail(exponent))
  ELSE DigitsValue(exponent)

\* the number written with the digits int before and frac after the ".",
\* and the exponent part when there is an "e"
LiteralValue(neg, int, frac, hasExponent, exponent) ==
  LET edigits == IF Len(exponent) > 0 /\ exponent[1] \in {43, 45}
                 THEN Tail(exponent) ELSE exponent
      sig == LastNonZero(int \o frac)
  IN  IF /\ Len(int) + Len(frac) > 0
         /\ AllDigits(int) /\ AllDigits(frac)
         /\ hasExponent => (Len(edigits) > 0 /\ AllDigits(edigits))
      THEN Decimal(neg, DigitsValue(SubSeq(int \o frac, 1, sig)),
                   ExponentValue(exponent) - Len(frac)
                     + (Len(int) + Len(frac) - sig))
      ELSE NaN

\* a mantissa with an optional "." among its digits
Mantissa(neg, mantissa, hasExponent, exponent) ==
  LET dot == FirstOf(mantissa, {46})
  IN  LiteralValue(neg, SubSeq(mantissa, 1, dot - 1),
                   SubSeq(mantissa, dot + 1, Len(mantissa)),
                   hasExponent, exponent)

\* an unsigned decimal literal with an optional exponent after "e" or "E"
Literal(neg, body) ==
  LET e == FirstOf(body, {69, 101})
  IN  Mantissa(neg, SubSeq(body, 1, e - 1), e <= Len(body),
               SubSeq(body, e + 1, Len(body)))

\* +input (StringToNumber) for strings of white space, signs, decimal digits,
\* "." and "e" (and characters that occur in no numeric literal), short
\* enough to be exact: the trimmed string is a number when it is empty or
\* an optionally signed decimal literal, that is digits with an optional "."
\* among them and an optional exponent of optionally signed digits
ToNumber(input) ==
  LET t == Trim(input)
  IN  IF t = <<>> THEN Zero
      ELSE IF t[1] \in {43, 45} THEN Literal(t[1] = 45, Tail(t))
      ELSE Literal(FALSE, t)

\* `${n}` (Number::toString) of a number whose digits are few enough to be exact
NumberToString(n) ==
  LET s == DecimalString(n.mag)
      k == Len(s)
      p == k + n.exp
      zeros(c) == [i \in 1..c |-> 48]
      sign == IF n.neg THEN <<45>> ELSE <<>>
      power == <<101>> \o (IF p - 1 < 0 THEN <<45>> \o DecimalString(1 - p)
                                       ELSE <<43>> \o DecimalString(p - 1))
  IN  IF n.nan THEN <<78, 97, 78>>
      ELSE IF n.mag = 0 THEN <<48>>
      ELSE IF k <= p /\ p <= 21 THEN sign \o s \o zeros(p - k)
      ELSE IF 0 < p /\ p <= 21
           THEN sign \o SubSeq(s, 1, p) \o <<46>> \o SubSeq(s, p + 1, k)
      ELSE IF -6 < p /\ p <= 0 THEN sign \o <<48, 46>> \o zeros(0 - p) \o s
      ELSE IF k = 1 THEN sign \o s \o power
      ELSE sign \o <<s[1], 46>> \o Tail(s) \o power

\* parseNumber that takes every falsy result of the conversion for a failure
ParseNumber_FalsyRefused(input0) ==
  LET input == Trim(input0)
  IN  IF Len(input) = 0 THEN Null
      ELSE IF input = <<78, 97, 78>> THEN Some(NaN)
      ELSE IF input = <<45, 48>> THEN Some(Zero)
      ELSE LET parsed == ToNumber(input)
           IN  IF parsed.nan \/ parsed.mag = 0 THEN Null ELSE Some(parsed)

\* parseNumber: null (refused) or the number
ParseNumber(input0) ==
  LET input == Trim(input0)
  IN  IF Len(input) = 0 THEN Null
      ELSE IF input = <<78, 97, 78>> THEN Some(NaN)
      ELSE IF input = <<45, 48>> THEN Some(Zero)
      ELSE LET parsed == ToNumber(input)
           IN  IF parsed.nan THEN Null ELSE Some(parsed)

-----------------------------------------------------------------------------
(* parseFields *)

\* input.charCodeAt(i) for a 0-based i; -1 stands for NaN, which equals no
\* character code
CharCodeAt(s, i) == IF i >= 0 /\ i < Len(s) THEN s[i + 1] ELSE -1

Includes(s, c) == \E k \in 1..Len(s) : s[k] = c

\* a line break is never seen
HasLineBreak_Never(input) == FALSE

\* input.match(/[\r\n]/)
HasLineBreak(input) == Includes(input, RETURN) \/ Includes(input, NEWLINE)

\* doubled quotes are left as they are
UnescapeQuotes_None(s) == s

\* s.replace(/""/g, "\"")
RECURSIVE UnescapeQuotes(_)
UnescapeQuotes(s) ==
  IF Len(s) >= 2 /\ s[1] = QUOTE /\ s[2] = QUOTE
  THEN <<QUOTE>> \o UnescapeQuotes(SubSeq(s, 3, Len(s)))
  ELSE IF Len(s) = 0 THEN <<>>
  ELSE <<s[1]>> \o UnescapeQuotes(Tail(s))

Token(tok, value, seen, done) ==
  [tok |-> tok, value |-> value, seen |-> seen, done |-> done]

\* the loop of parseField over a quoted field that began at start; seen is
\* the value of the variable at the top of the loop
RECURSIVE QuotedField(_, _, _)
QuotedField(input, start, seen0) ==
  LET seen == seen0 + 1
  IN  IF seen >= Len(input) THEN Token("NO_MATCH", <<>>, seen, FALSE)
      ELSE
        LET c == CharCodeAt(input, seen)
        IN  IF c = QUOTE
            THEN
              LET seen2 == seen + 1
                  c2 == CharCodeAt(input, seen2)
              IN  IF seen2 >= Len(input)
                  THEN Token("field",
                             UnescapeQuotes(StrSlice(input, start + 1, seen2 + 1 - 2)),
                             seen2 + 1, TRUE)
                  ELSE IF c2 = QUOTE THEN QuotedField(input, start, seen2)
                  ELSE IF c2 # COMMA THEN Token("NO_MATCH", <<>>, seen2, FALSE)
                  ELSE Token("field",
                             UnescapeQuotes(StrSlice(input, start + 1, seen2 + 1 - 2)),
                             seen2 + 1, FALSE)
            ELSE IF c = NEWLINE \/ c = RETURN
                 THEN Token("NO_MATCH", <<>>, seen, FALSE)
            ELSE QuotedField(input, start, seen)

\* an unquoted field read up to the next comma whatever it holds
RECURSIVE UnquotedField_AnyChar(_, _, _)
UnquotedField_AnyChar(input, start, seen) ==
  IF seen >= Len(input)
  THEN Token("field", StrSlice(input, start, Len(input)), seen, TRUE)
  ELSE IF CharCodeAt(input, seen) = COMMA
       THEN Token("field", StrSlice(input, start, seen + 1 - 1), seen + 1, FALSE)
  ELSE UnquotedField_AnyChar(input, start, seen + 1)

\* the loop of parseField over an unquoted field that began at start
RECURSIVE UnquotedField(_, _, _)
UnquotedField(input, start, seen) ==
  IF seen >= Len(input)
  THEN Token("field", StrSlice(input, start, Len(input)), seen, TRUE)
  ELSE
    LET c == CharCodeAt(input, seen)
    IN  IF c = COMMA
        THEN Token("field", StrSlice(input, start, seen + 1 - 1), seen + 1, FALSE)
        ELSE IF c = QUOTE \/ c = NEWLINE \/ c = RETURN
             THEN Token("NO_MATCH", <<>>, seen + 1, FALSE)
        ELSE UnquotedField(input, start, seen + 1)

\* parseField(), with the closure's variables seen and done as parameters
ParseField(input, seen, done) ==
  IF done THEN Token("END", <<>>, seen, done)
  ELSE IF CharCodeAt(input, seen) = QUOTE THEN QuotedField(input, seen, seen)
  ELSE UnquotedField(input, seen, seen)

\* the final loop of parseFields
RECURSIVE ScanFields(_, _, _, _)
ScanFields(input, seen, done, fields) ==
  LET t == ParseField(input, seen, done)
  IN  IF t.tok = "END" THEN Some(fields)
      ELSE IF t.tok = "NO_MATCH" THEN Null
      ELSE ScanFields(input, t.seen, t.done, Append(fields, t.value))

\* parseFields that accepts a bare token that is not a number as one field
ParseFields_BareHeader(input) ==
  IF Len(input) = 0 THEN Null
  ELSE IF CharCodeAt(input, 0) # QUOTE /\ ~Includes(input, COMMA)
       THEN IF HasLineBreak(input) THEN Null
            ELSE IF Len(Trim(input)) > 0 THEN Some(<<input>>)
            ELSE Null
  ELSE ScanFields(input, 0, FALSE, <<>>)

\* parseFields that returns a bare number without the white space around it
ParseFields_TrimmedBare(input) ==
  IF Len(input) = 0 THEN Null
  ELSE IF CharCodeAt(input, 0) # QUOTE /\ ~Includes(input, COMMA)
       THEN IF HasLineBreak(input) THEN Null
            ELSE IF Len(Trim(input)) > 0 /\ ~IsNull(ParseNumber(input))
                 THEN Some(<<Trim(input)>>)
            ELSE Null
  ELSE ScanFields(input, 0, FALSE, <<>>)

\* parseFields: null (refused) or the field list
ParseFields(input) ==
  IF Len(input) = 0 THEN Null
  ELSE IF CharCodeAt(input, 0) # QUOTE /\ ~Includes(input, COMMA)
       THEN IF HasLineBreak(input) THEN Null
            ELSE IF Len(Trim(input)) > 0 /\ ~IsNull(ParseNumber(input))
                 THEN Some(<<input>>)
            ELSE Null
  ELSE ScanFields(input, 0, FALSE, <<>>)

-----------------------------------------------------------------------------
(* The reference CSV dialect the tests compare with: d3-dsv's csvFormatRow   *)
(* and csvParseRows.                                                        *)

\* formatValue: a field holding a quote, a comma, CR or LF is quoted and its
\* quotes are doubled
RECURSIVE DoubleQuotes(_)
DoubleQuotes(s) ==
  IF s = <<>> THEN <<>>
  ELSE (IF s[1] = QUOTE THEN <<QUOTE, QUOTE>> ELSE <<s[1]>>) \o DoubleQuotes(Tail(s))

Quoted(s) == <<QUOTE>> \o DoubleQuotes(s) \o <<QUOTE>>

FormatValue(s) ==
  IF \E k \in 1..Len(s) : s[k] \in {QUOTE, COMMA, NEWLINE, RETURN}
  THEN Quoted(s) ELSE s

\* csvFormatRow(fields): the formatted fields joined by commas
RECURSIVE CsvFormatRow(_)
CsvFormatRow(fields) ==
  IF fields = <<>> THEN <<>>
  ELSE IF Len(fields) = 1 THEN FormatValue(fields[1])
  ELSE FormatValue(fields[1]) \o <<COMMA>> \o CsvFormatRow(Tail(fields))

\* the test's line for a single string: written as one quoted field
QuotedLine(s) == IF Includes(s, QUOTE) THEN CsvFormatRow(<<s>>) ELSE <<QUOTE>> \o s \o <<QUOTE>>

\* value.replace(/""/g, "\"") of csvParseRows
RECURSIVE RefUnescape(_)
RefUnescape(s) ==
  IF Len(s) >= 2 /\ s[1] = QUOTE /\ s[2] = QUOTE
  THEN <<QUOTE>> \o RefUnescape(SubSeq(s, 3, Len(s)))
  ELSE IF Len(s) = 0 THEN <<>>
  ELSE <<s[1]>> \o RefUnescape(Tail(s))

\* the scan of csvParseRows over a quoted token: the index I after the loop
\*   while (I++ < N && text.charCodeAt(I) !== QUOTE || text.charCodeAt(++I) === QUOTE);
RECURSIVE RefQuoteEnd(_, _, _)
RefQuoteEnd(text, N, I0) ==
  LET I1 == I0 + 1
  IN  IF I0 < N /\ CharCodeAt(text, I1) # QUOTE THEN RefQuoteEnd(text, N, I1)
      ELSE IF CharCodeAt(text, I1 + 1) = QUOTE THEN RefQuoteEnd(text, N, I1 + 1)
      ELSE I1 + 1

\* the scan of csvParseRows over an unquoted token that began at j
RECURSIVE RefPlain(_, _, _, _)
RefPlain(text, N, j, I) ==
  IF I >= N
  THEN [value |-> StrSlice(text, j, N), I |-> I, eof |-> TRUE, eol |-> FALSE]
  ELSE
    LET c == CharCodeAt(text, I)
    IN  IF c = NEWLINE
        THEN [value |-> StrSlice(text, j, I), I |-> I + 1, eof |-> FALSE, eol |-> TRUE]
        ELSE IF c = RETURN
             THEN [value |-> StrSlice(text, j, I),
                   I |-> IF CharCodeAt(text, I + 1) = NEWLINE THEN I + 2 ELSE I + 1,
                   eof |-> FALSE, eol |-> TRUE]
        ELSE IF c = COMMA
             THEN [value |-> StrSlice(text, j, I), I |-> I + 1, eof |-> FALSE, eol |-> FALSE]
        ELSE RefPlain(text, N, j, I + 1)

\* token() of csvParseRows, called with eof and eol both false
RefToken(text, N, I) ==
  IF CharCodeAt(text, I) = QUOTE
  THEN
    LET i == RefQuoteEnd(text, N, I)
        c == CharCodeAt(text, i)
        value == RefUnescape(StrSlice(text, I + 1, i - 1))
    IN  IF i >= N THEN [value |-> value, I |-> i, eof |-> TRUE, eol |-> FALSE]
        ELSE IF c = NEWLINE
             THEN [value |-> value, I |-> i + 1, eof |-> FALSE, eol |-> TRUE]
        ELSE IF c = RETURN
             THEN [value |-> value,
                   I |-> IF CharCodeAt(text, i + 1) = NEWLINE THEN i + 2 ELSE i + 1,
                   eof |-> FALSE, eol |-> TRUE]
        ELSE [value |-> value, I |-> i + 1, eof |-> FALSE, eol |-> FALSE]
  ELSE RefPlain(text, N, I, I)

\* the tokens of the first row: up to the first EOL or EOF
RECURSIVE RefRow(_, _, _, _)
RefRow(text, N, I, row) ==
  LET t == RefToken(text, N, I)
  IN  IF t.eof \/ t.eol THEN Append(row, t.value)
      ELSE RefRow(text, N, t.I, Append(row, t.value))

\* csvParseRows(text)[0]: null when the text has no row
CsvParseFirstRow(text) ==
  LET N0 == Len(text)
      N1 == IF CharCodeAt(text, N0 - 1) = NEWLINE THEN N0 - 1 ELSE N0
      N == IF CharCodeAt(text, N1 - 1) = RETURN THEN N1 - 1 ELSE N1
  IN  IF N0 <= 0 THEN Null ELSE Some(RefRow(text, N, 0, <<>>))

-----------------------------------------------------------------------------
(* parseFields as a state machine: a raw line is parsed, a record is first   *)
(* formatted                                                                *)

\* the characters of raw lines: LF, CR, comma, quote, space, "-", "1", "a"
CsvChars == {NEWLINE, RETURN, COMMA, QUOTE, 32, 45, 49, 97}

\* the characters of the fields of a record: comma, quote and "a"
FieldChars == {COMMA, QUOTE, 97}

\* the characters of a single string: those of a field, LF and CR
StringChars == FieldChars \cup {NEWLINE, RETURN}

\* records of one string, or of two or more fields free of control characters
CsvRecords ==
  [1..1 -> StringsUpTo(StringChars, MaxField)]
    \cup UNION {[1..n -> StringsUpTo(FieldChars, MaxField)] : n \in 2..MaxFields}

CsvInit ==
  /\ \/ /\ csvRecord = Null
        /\ csvLine \in StringsUpTo(CsvChars, MaxLine)
        /\ csvPc = "parse"
     \/ /\ csvRecord \in {Some(r) : r \in CsvRecords}
        /\ csvLine = <<>>
        /\ csvPc = "format"
  /\ csvFields = Null

\* the record is written as a line: two or more fields by csvFormatRow, a
\* single string as one quoted field
CsvFormat ==
  /\ csvPc = "format"
  /\ csvLine' = IF Len(Val(csvRecord)) = 1 THEN QuotedLine(Val(csvRecord)[1])
                ELSE CsvFormatRow(Val(csvRecord))
  /\ csvPc' = "parse"
  /\ UNCHANGED <<csvRecord, csvFields>>
  /\ UNCHANGED <<tableVars, linesVars, appVars, decodeVars, rowVars, viewVars,
                 numVars, multiVars, portVars, tabsVars>>

CsvParse ==
  /\ csvPc = "parse"
  /\ csvFields' = ParseFields(csvLine)
  /\ csvPc' = "done"
  /\ UNCHANGED <<csvRecord, csvLine>>
  /\ UNCHANGED <<tableVars, linesVars, appVars, decodeVars, rowVars, viewVars,
                 numVars, multiVars, portVars, tabsVars>>

CsvNext ==
  CsvFormat \/ CsvParse

CsvIdle ==
  /\ csvRecord = Null
  /\ csvLine = <<>>
  /\ csvFields = Null
  /\ csvPc = "idle"

-----------------------------------------------------------------------------
(* parseRow *)

\* parseRow that trims the fields of a header row
ParseRow_TrimmedHeader(input) ==
  LET fields == ParseFields(input)
  IN  IF IsNull(fields) THEN Null
      ELSE LET fs == Val(fields)
           IN  IF \E i \in 1..Len(fs) : IsNull(ParseNumber(fs[i]))
               THEN Some(HeaderRow([i \in 1..Len(fs) |-> Trim(fs[i])]))
               ELSE Some(DataRow([i \in 1..Len(fs) |-> Val(ParseNumber(fs[i]))]))

\* parseRow that takes every row of one field for a header
ParseRow_OneFieldHeader(input) ==
  LET fields == ParseFields(input)
  IN  IF IsNull(fields) THEN Null
      ELSE LET fs == Val(fields)
           IN  IF Len(fs) = 1 \/ \E i \in 1..Len(fs) : IsNull(ParseNumber(fs[i]))
               THEN Some(HeaderRow(fs))
               ELSE Some(DataRow([i \in 1..Len(fs) |-> Val(ParseNumber(fs[i]))]))

\* parseRow: null (refused), a header row or a data row
ParseRow(input) ==
  LET fields == ParseFields(input)
  IN  IF IsNull(fields) THEN Null
      ELSE LET fs == Val(fields)
           IN  IF \E i \in 1..Len(fs) : IsNull(ParseNumber(fs[i]))
               THEN Some(HeaderRow(fs))
               ELSE Some(DataRow([i \in 1..Len(fs) |-> Val(ParseNumber(fs[i]))]))

\* the characters of the lines given to parseRow: comma, quote, CR, space,
\* "-", "1" and "a"
RowChars == {COMMA, QUOTE, RETURN, 32, 45, 49, 97}

\* the lines "NaN", "NaN,1" and "-0,1"
RowExamples == {<<78, 97, 78>>, <<78, 97, 78, 44, 49>>, <<45, 48, 44, 49>>}

RowLines == StringsUpTo(RowChars, MaxLine) \cup RowExamples

\* the first line is any of RowLines
RowInit ==
  /\ rowLine \in RowLines
  /\ rowResult = Null
  /\ rowCalls = 0

\* the first call: parseRow(rowLine)
RowParse ==
  /\ rowCalls = 0
  /\ rowResult' = ParseRow(rowLine)
  /\ rowCalls' = 1
  /\ UNCHANGED rowLine
  /\ UNCHANGED <<tableVars, linesVars, csvVars, appVars, decodeVars, viewVars,
                 numVars, multiVars, portVars, tabsVars>>

\* a later call: parseRow of the same line again or of one of RowExamples
RowParseAgain ==
  \E line \in RowExamples \cup {rowLine} :
    /\ rowCalls > 0
    /\ rowCalls < MaxParses
    /\ rowLine' = line
    /\ rowResult' = ParseRow(line)
    /\ rowCalls' = rowCalls + 1
    /\ UNCHANGED <<tableVars, linesVars, csvVars, appVars, decodeVars,
                   viewVars, numVars, multiVars, portVars, tabsVars>>

RowNext == RowParse \/ RowParseAgain

RowIdle ==
  /\ rowLine = <<>>
  /\ rowResult = Null
  /\ rowCalls = -1

-----------------------------------------------------------------------------
(* ColumnStates: a Map from column name to "top", "bottom" or "hidden", kept  *)
(* as the sequence of its entries in insertion order                        *)

bottomColumnLimit == 4

MapHas(m, k) == \E i \in 1..Len(m) : m[i].name = k

MapGet(m, k) ==
  IF MapHas(m, k) THEN (CHOOSE e \in {m[i] : i \in 1..Len(m)} : e.name = k).state
  ELSE "hidden"

\* Map.set: an entry that exists keeps its place
MapSet(m, k, v) ==
  IF MapHas(m, k)
  THEN [i \in 1..Len(m) |-> IF m[i].name = k THEN [name |-> k, state |-> v] ELSE m[i]]
  ELSE Append(m, [name |-> k, state |-> v])

SelectState(m, st) == SelectSeq(m, LAMBDA e : e.state = st)

\* the for loop of withColumns that makes new columns "bottom" while i < n
RECURSIVE TakeBottom(_, _, _, _)
TakeBottom(next, newColumns, i, n) ==
  IF i >= n \/ newColumns = <<>> THEN [next |-> next, newColumns |-> newColumns]
  ELSE IF Head(newColumns) = <<>>
       THEN [next |-> next, newColumns |-> Tail(newColumns)]
  ELSE TakeBottom(MapSet(next, Head(newColumns), "bottom"), Tail(newColumns), i + 1, n)

RECURSIVE SetAll(_, _, _)
SetAll(next, names, st) ==
  IF names = <<>> THEN next
  ELSE SetAll(MapSet(next, Head(names), st), Tail(names), st)

RECURSIVE CopyEntries(_, _)
CopyEntries(next, entries) ==
  IF entries = <<>> THEN next
  ELSE CopyEntries(MapSet(next, Head(entries).name, Head(entries).state), Tail(entries))

WithColumns(states, tableColumns) ==
  LET newColumns == SelectSeq(tableColumns, LAMBDA c : ~MapHas(states, c))
      topColumns == SelectState(states, "top")
      bottomColumns == SelectState(states, "bottom")
  IN  IF Len(newColumns) = 0 THEN states
      ELSE
        LET next1 == IF Len(topColumns) = 0
                     THEN MapSet(<<>>, Head(newColumns), "top") ELSE <<>>
            new1 == IF Len(topColumns) = 0 THEN Tail(newColumns) ELSE newColumns
            b == TakeBottom(next1, new1, 0, bottomColumnLimit - Len(bottomColumns))
            next3 == SetAll(b.next, b.newColumns, "hidden")
        IN  CopyEntries(next3, states)

-----------------------------------------------------------------------------
(* AppState *)

PortStatus == {"start", "connecting", "reading", "closing", "closed", "portGone"}

SelectedTab == {"Head", "Tail", "Plot", "Save"}

NewAppState ==
  [status |-> "start",
   log |-> [key |-> 0, head |-> <<>>, tail |-> <<>>],
   linesAdded |-> 0,
   rows |-> NewTableBuffer(tableBufferLimit),
   tab |-> "Tail",
   plotSettings |-> [columnStates |-> <<>>,
                     range |-> range(0, zoomRangeStart),
                     bounds |-> range(0, zoomRangeStart),
                     zoomRange |-> range(zoomRangeStart, zoomRangeStart)],
   threw |-> FALSE]

\* #pushLog that keeps the first lines in tail when it is full
PushLog_TailKeepsFirst(a, line) ==
  LET logLine == [key |-> a.linesAdded, value |-> line]
      head == IF Len(a.log.head) < logHeadLimit
              THEN a.log.head \o <<logLine>> ELSE a.log.head
      tail == IF Len(a.log.tail) < logTailLimit
              THEN a.log.tail \o <<logLine>> ELSE a.log.tail
  IN  [a EXCEPT !.log = [key |-> a.log.key, head |-> head, tail |-> tail],
                !.linesAdded = a.linesAdded + 1]

\* #pushLog
PushLog(a, line) ==
  LET logLine == [key |-> a.linesAdded, value |-> line]
      head == IF Len(a.log.head) < logHeadLimit
              THEN a.log.head \o <<logLine>> ELSE a.log.head
      tail == IF Len(a.log.tail) < logTailLimit
              THEN a.log.tail \o <<logLine>>
              ELSE Tail(a.log.tail) \o <<logLine>>
  IN  [a EXCEPT !.log = [key |-> a.log.key, head |-> head, tail |-> tail],
                !.linesAdded = a.linesAdded + 1]

\* #pushRow; a Range constructed with end < start throws, which leaves the
\* assignments made before it in place and sets threw
PushRow(a, row) ==
  LET prevKey == BufKey(a.rows)
      rows == BufPush(a.rows, row)
      columnStates == IF prevKey # BufKey(rows)
                      THEN WithColumns(a.plotSettings.columnStates, Val(rows.columnNames))
                      ELSE a.plotSettings.columnStates
      a1 == [a EXCEPT !.rows = rows, !.plotSettings.columnStates = columnStates]
      bounds0 == BufRange(rows)
      bounds == IF bounds0.end < zoomRangeStart
                THEN range(bounds0.start, zoomRangeStart) ELSE bounds0
      zoomRangeEnd == RangeLength(bounds)
      plotRange0 == a.plotSettings.range
      plotRange == IF plotRange0.end = bounds.end - 1
                   THEN range(plotRange0.start + 1, plotRange0.end + 1)
                   ELSE plotRange0
  IN  IF zoomRangeEnd < zoomRangeStart
      THEN [a1 EXCEPT !.threw = TRUE]
      ELSE [a1 EXCEPT !.plotSettings.range = plotRange,
                      !.plotSettings.bounds = bounds,
                      !.plotSettings.zoomRange = range(zoomRangeStart, zoomRangeEnd)]

\* pushDeviceOutput that takes a refused line for a one-field header
PushDeviceOutput_HeaderOnRefuse(a, line) ==
  LET a1 == PushLog([a EXCEPT !.threw = FALSE], line)
      row == ParseRow(line)
  IN  IF ~IsNull(row) THEN PushRow(a1, Val(row))
      ELSE PushRow(a1, HeaderRow(<<line>>))

\* pushDeviceOutput; #save only dispatches an event
PushDeviceOutput(a, line) ==
  LET a1 == PushLog([a EXCEPT !.threw = FALSE], line)
      row == ParseRow(line)
  IN  IF ~IsNull(row) THEN PushRow(a1, Val(row)) ELSE a1

\* canChangeTo in which a port that is gone can be connected again
CanChangeTo_FromPortGone(a, request) ==
  CASE a.status = "start" -> request = "connecting"
    [] a.status = "connecting" -> request \in {"reading", "closing", "portGone"}
    [] a.status = "reading" -> request \in {"closing", "portGone"}
    [] a.status = "closing" -> request \in {"closed", "portGone"}
    [] a.status \in {"closed", "portGone"} -> request \in {"connecting", "portGone"}
    [] OTHER -> FALSE

\* canChangeTo in which a port that is gone can be reported closed
CanChangeTo_ClosedFromGone(a, request) ==
  CASE a.status = "start" -> request = "connecting"
    [] a.status = "connecting" -> request \in {"reading", "closing", "portGone"}
    [] a.status = "reading" -> request \in {"closing", "portGone"}
    [] a.status = "closing" -> request \in {"closed", "portGone"}
    [] a.status = "closed" -> request \in {"connecting", "portGone"}
    [] a.status = "portGone" -> request = "closed"
    [] OTHER -> FALSE

\* canChangeTo
CanChangeTo(a, request) ==
  CASE a.status = "start" -> request = "connecting"
    [] a.status = "connecting" -> request \in {"reading", "closing", "portGone"}
    [] a.status = "reading" -> request \in {"closing", "portGone"}
    [] a.status = "closing" -> request \in {"closed", "portGone"}
    [] a.status = "closed" -> request \in {"connecting", "portGone"}
    [] OTHER -> FALSE

\* `*** ${message} ***`
Starred(message) == <<42, 42, 42, 32>> \o message \o <<32, 42, 42, 42>>

\* requestChange(wanted, options): the AppState after the call, the value
\* returned and the events dispatched; options.message is Null when absent,
\* and the empty string is falsy
RequestChange(a, wanted, options) ==
  IF ~CanChangeTo(a, wanted)
  THEN [app |-> [a EXCEPT !.threw = FALSE], result |-> FALSE, events |-> <<>>]
  ELSE
    LET a1 == IF wanted = "connecting"
              THEN [a EXCEPT !.log = [key |-> a.log.key + 1, head |-> <<>>,
                                      tail |-> <<>>],
                             !.linesAdded = 0,
                             !.rows = BufClear(a.rows),
                             !.tab = IF a.tab = "Save" THEN "Plot" ELSE a.tab,
                             !.plotSettings.range = range(0, zoomRangeStart),
                             !.plotSettings.bounds = range(0, zoomRangeStart),
                             !.plotSettings.zoomRange =
                               range(zoomRangeStart, zoomRangeStart)]
              ELSE a
        logged == ~IsNull(options.message) /\ Val(options.message) # <<>>
        a2 == IF logged THEN PushLog(a1, Starred(Val(options.message))) ELSE a1
    IN  [app |-> [a2 EXCEPT !.status = wanted, !.threw = FALSE],
         result |-> TRUE,
         events |-> (IF logged THEN <<"save">> ELSE <<>>) \o <<"status", "save">>]

\* requestClose: requestChange("closed", { optional: true }) ||
\* requestChange("closing")
RequestClose(a) ==
  LET first == RequestChange(a, "closed", [message |-> Null, optional |-> TRUE])
  IN  IF first.result THEN first
      ELSE RequestChange(first.app, "closing", [message |-> Null, optional |-> FALSE])

\* no message, and the message of deviceClosed
Messages == {Null, Some(<<67, 108, 111, 115, 101, 100>>)}

\* the getter props: the Range constructor throws when end < start, and
\* slice throws for a range outside the retained rows
Props(a) ==
  LET fullRange == BufRange(a.rows)
      plotRange == a.plotSettings.range
      start == Max(fullRange.start, plotRange.start)
      end == Min(fullRange.end, plotRange.end)
      table == BufSlice(a.rows, Some(range(start, end)))
  IN  IF end < start THEN [threw |-> TRUE, table |-> Null]
      ELSE [threw |-> table.status = "throw", table |-> table.value]

\* zoom(windowSize); Math.floor(middle - windowSize/2) with
\* middle = plot.start + plot.length/2 is computed on the doubled numbers
Zoom(a, windowSize) ==
  LET plot == a.plotSettings.range
      full == BufRange(a.rows)
      floor == (2 * plot.start + RangeLength(plot) - windowSize) \div 2
      start == IF plot.end = full.end
               THEN Max(full.start, full.end - windowSize)
               ELSE Max(full.start, Min(full.end - windowSize, floor))
      end == IF plot.end = full.end THEN full.end
             ELSE Max(zoomRangeStart, Min(start + windowSize, full.end))
  IN  IF end < start THEN [a EXCEPT !.threw = TRUE]
      ELSE [a EXCEPT !.plotSettings.range = range(start, end), !.threw = FALSE]

\* pan(delta)
Pan(a, delta0) ==
  LET bounds == a.plotSettings.bounds
      old == a.plotSettings.range
      delta == IF delta0 < 0 /\ old.start + delta0 < bounds.start
               THEN bounds.start - old.start
               ELSE IF delta0 > 0 /\ old.end + delta0 > bounds.end
               THEN bounds.end - old.end
               ELSE delta0
  IN  IF delta # 0
      THEN [a EXCEPT !.plotSettings.range = range(old.start + delta, old.end + delta),
                     !.threw = FALSE]
      ELSE [a EXCEPT !.threw = FALSE]

\* the lines a device sends: "1,2", "a,b", "1", and the malformed "a", "\"a"
\* and the blank line
DeviceLines == {<<49, 44, 50>>, <<97, 44, 98>>, <<49>>, <<97>>, <<QUOTE, 97>>, <<>>}

AppInit ==
  /\ app = NewAppState
  /\ appLast = [op |-> "new", line |-> <<>>]
  /\ appPushed = <<>>

AppPushDeviceOutput ==
  \E line \in DeviceLines :
    /\ app.linesAdded < MaxLines
    /\ app' = PushDeviceOutput(app, line)
    /\ appLast' = [op |-> "pushDeviceOutput", line |-> line]
    /\ appPushed' = Append(appPushed, line)
    /\ UNCHANGED <<tableVars, linesVars, csvVars, decodeVars, rowVars,
                   viewVars, numVars, multiVars, portVars, tabsVars>>

\* zoom, with a value of the zoom slider, which is disabled while the zoom
\* range is empty
AppZoom ==
  \E windowSize \in app.plotSettings.zoomRange.start..app.plotSettings.zoomRange.end :
    /\ RangeLength(app.plotSettings.zoomRange) # 0
    /\ app' = Zoom(app, windowSize)
    /\ appLast' = [op |-> "zoom", windowSize |-> windowSize]
    /\ UNCHANGED appPushed
    /\ UNCHANGED <<tableVars, linesVars, csvVars, decodeVars, rowVars, viewVars,
                   numVars, multiVars, portVars, tabsVars>>

\* pan, with the rows a move of the slider stands for
AppPan ==
  \E delta \in {-2, -1, 1, 2} :
    /\ app' = Pan(app, delta)
    /\ appLast' = [op |-> "pan", delta |-> delta]
    /\ UNCHANGED appPushed
    /\ UNCHANGED <<tableVars, linesVars, csvVars, decodeVars, rowVars, viewVars,
                   numVars, multiVars, portVars, tabsVars>>

AppNext ==
  AppPushDeviceOutput \/ AppZoom \/ AppPan

AppIdle ==
  /\ app = NewAppState
  /\ appLast = [op |-> "idle", line |-> <<>>]
  /\ appPushed = <<>>

-----------------------------------------------------------------------------
(* An AppState that receives status requests between the lines of a device  *)

\* a data row and a line that parseRow refuses
PortLines == {<<49, 44, 50>>, <<97>>}

PortInit ==
  /\ port = NewAppState
  /\ portLast = [op |-> "new"]

PortPushDeviceOutput ==
  \E line \in PortLines :
    /\ port.linesAdded < MaxPortLines
    /\ port' = PushDeviceOutput(port, line)
    /\ portLast' = [op |-> "pushDeviceOutput", line |-> line]
    /\ UNCHANGED <<tableVars, linesVars, csvVars, appVars, decodeVars, rowVars,
                   viewVars, numVars, multiVars, tabsVars>>

\* requestChange, as deviceOpened, deviceClosed, deviceCrashed and
\* requestRestart call it, and with every other status
PortRequestChange ==
  \E wanted \in PortStatus, message \in Messages, optional \in BOOLEAN :
    LET options == [message |-> message, optional |-> optional]
        r == RequestChange(port, wanted, options)
    IN  /\ r.app.log.key <= MaxSessions
        /\ r.app.linesAdded <= MaxPortLines
        /\ port' = r.app
        /\ portLast' = [op |-> "requestChange", wanted |-> wanted,
                       options |-> options, result |-> r.result,
                       events |-> r.events]
        /\ UNCHANGED <<tableVars, linesVars, csvVars, appVars, decodeVars,
                       rowVars, viewVars, numVars, multiVars, tabsVars>>

PortRequestClose ==
  LET r == RequestClose(port)
  IN  /\ port' = r.app
      /\ portLast' = [op |-> "requestClose", result |-> r.result,
                     events |-> r.events]
      /\ UNCHANGED <<tableVars, linesVars, csvVars, appVars, decodeVars,
                     rowVars, viewVars, numVars, multiVars, tabsVars>>

\* chooseTab
PortChooseTab ==
  \E tab \in SelectedTab :
    /\ port' = [port EXCEPT !.tab = tab, !.threw = FALSE]
    /\ portLast' = [op |-> "chooseTab", tab |-> tab]
    /\ UNCHANGED <<tableVars, linesVars, csvVars, appVars, decodeVars, rowVars,
                   viewVars, numVars, multiVars, tabsVars>>

PortNext ==
  \/ PortPushDeviceOutput
  \/ PortRequestChange
  \/ PortRequestClose
  \/ PortChooseTab

PortIdle ==
  /\ port = NewAppState
  /\ portLast = [op |-> "idle"]

-----------------------------------------------------------------------------
(* Two browser tabs on the same serial port: main's wiring of an AppState    *)
(* to a SerialPortDevice, the timer of connectUnlessCancelled and the        *)
(* storage events of localStorage.openingSerialPort.  The content of the     *)
(* stream is left out: a read either goes on, ends, or fails.  A promise is  *)
(* named by its index in promises, and a reader by the index of the          *)
(* #parseRows promise that took it.                                          *)

TabIds == {1, 2}

\* a tab after main made its AppState and its device
NewTab ==
  [state |-> NewAppState, readers |-> <<>>, tasks |-> <<>>,
   promises |-> <<>>, conns |-> <<>>, timers |-> 0, storage |-> 0,
   port |-> "closed"]

NoOptions == [message |-> Null, optional |-> FALSE]

\* the text of an exception
ErrorMessage == Some(<<69, 114, 114>>)

\* the times the tabs started connecting
Sessions(ts) == ts[1].state.log.key + ts[2].state.log.key

\* cancel: reader.cancel() on a released reader returns a rejected promise
DeviceCancel(d) ==
  LET n == Len(d.promises)
      made == [i \in 1..Len(d.readers) |->
                [kind |-> "cancel", state |-> "pending",
                 outcome |-> IF d.promises[d.readers[i]].lock = "locked"
                             THEN "fulfilled" ELSE "rejected"]]
      reached == [p \in 1..n |->
                   IF /\ \E i \in 1..Len(d.readers) : d.readers[i] = p
                      /\ d.promises[p].lock = "locked"
                   THEN [d.promises[p] EXCEPT !.cancelled = TRUE]
                   ELSE d.promises[p]]
  IN  [d EXCEPT !.promises = reached \o made,
                !.tasks = @ \o [i \in 1..Len(d.readers) |-> n + i],
                !.readers = <<>>]

\* #parseRows of connection c up to its first await, and the push of its
\* promise
DeviceParseRows(d, c) ==
  LET p == Len(d.promises) + 1
  IN  [d EXCEPT !.promises = Append(@, [kind |-> "parse", state |-> "pending",
                                        conn |-> c,
                                        pc |-> "reading", lock |-> "locked",
                                        cancelled |-> FALSE, fails |-> FALSE]),
                !.readers = Append(@, p),
                !.tasks = Append(@, p)]

\* #closePortWhenDone that calls port.close() without awaiting the tasks
ClosePortWhenDone_NoWait(d, c) ==
  [d EXCEPT !.conns[c].pc = "close",
            !.conns[c].ok = (d.port = "open"),
            !.conns[c].closeCalls = @ + 1,
            !.port = IF d.port = "open" THEN "closing" ELSE @]

\* #closePortWhenDone of connection c, from the head of its loop to its next
\* await: of the next task, or of port.close(), which rejects when the port
\* is not open
ClosePortWhenDone(d, c) ==
  IF d.tasks # <<>>
  THEN [d EXCEPT !.conns[c].pc = "await", !.conns[c].cur = Head(d.tasks),
                 !.tasks = Tail(@)]
  ELSE [d EXCEPT !.conns[c].pc = "close",
                 !.conns[c].ok = (d.port = "open"),
                 !.conns[c].closeCalls = @ + 1,
                 !.port = IF d.port = "open" THEN "closing" ELSE @]

\* connect up to its await: port.open() rejects when the port is not closed
DeviceConnect(d) ==
  [d EXCEPT !.conns = Append(@, [pc |-> "open", cur |-> 0,
                                 ok |-> (d.port = "closed"),
                                 opened |-> FALSE, closeCalls |-> 0]),
            !.port = IF d.port = "closed" THEN "opening" ELSE @]

\* the listener of "status" in main, run by tab t after its status changed
StatusListener(ts, t) ==
  CASE ts[t].state.status = "connecting" ->
         [o \in TabIds |->
           IF o = t THEN [ts[o] EXCEPT !.timers = @ + 1]
           ELSE IF ts[o].state.status # "start"
                THEN [ts[o] EXCEPT !.storage = @ + 1]
                ELSE ts[o]]
    [] ts[t].state.status = "closing" -> [ts EXCEPT ![t] = DeviceCancel(ts[t])]
    [] OTHER -> ts

\* the tabs after a call r of requestChange or requestClose in tab t
Requested(ts, t, r) ==
  LET ts1 == [ts EXCEPT ![t].state = r.app]
  IN  IF r.result THEN StatusListener(ts1, t) ELSE ts1

TabsInit ==
  /\ tabs = [t \in TabIds |-> NewTab]
  /\ tabsLast = [tab |-> 0, op |-> "new", call |-> "none"]

\* main, after the user chose the port: requestChange("connecting")
TabsStart ==
  \E t \in TabIds :
    /\ tabs[t].state.status = "start"
    /\ Sessions(tabs) < MaxConnects
    /\ tabs' = Requested(tabs, t,
                         RequestChange(tabs[t].state, "connecting", NoOptions))
    /\ tabsLast' = [tab |-> t, op |-> "start", call |-> "none"]
    /\ UNCHANGED <<tableVars, linesVars, csvVars, appVars, decodeVars, rowVars,
                   viewVars, numVars, multiVars, portVars>>

\* the Restart button, enabled when the status is "closed": requestRestart
TabsRestart ==
  \E t \in TabIds :
    /\ tabs[t].state.status = "closed"
    /\ Sessions(tabs) < MaxConnects
    /\ tabs' = Requested(tabs, t,
                         RequestChange(tabs[t].state, "connecting", NoOptions))
    /\ tabsLast' = [tab |-> t, op |-> "restart", call |-> "none"]
    /\ UNCHANGED <<tableVars, linesVars, csvVars, appVars, decodeVars, rowVars,
                   viewVars, numVars, multiVars, portVars>>

\* the Stop button, enabled when the status is "reading": requestClose
TabsStop ==
  \E t \in TabIds :
    /\ tabs[t].state.status = "reading"
    /\ tabs' = Requested(tabs, t, RequestClose(tabs[t].state))
    /\ tabsLast' = [tab |-> t, op |-> "stop", call |-> "none"]
    /\ UNCHANGED <<tableVars, linesVars, csvVars, appVars, decodeVars, rowVars,
                   viewVars, numVars, multiVars, portVars>>

\* a storage event of openingSerialPort is delivered: requestClose
TabsStorage ==
  \E t \in TabIds :
    /\ tabs[t].storage > 0
    /\ tabs' = Requested([tabs EXCEPT ![t].storage = @ - 1], t,
                         RequestClose(tabs[t].state))
    /\ tabsLast' = [tab |-> t, op |-> "storage", call |-> "none"]
    /\ UNCHANGED <<tableVars, linesVars, csvVars, appVars, decodeVars, rowVars,
                   viewVars, numVars, multiVars, portVars>>

\* the timer of connectUnlessCancelled fires
TabsTimer ==
  \E t \in TabIds :
    /\ tabs[t].timers > 0
    /\ LET d == [tabs[t] EXCEPT !.timers = @ - 1]
       IN  tabs' = [tabs EXCEPT ![t] = IF d.state.status = "connecting"
                                       THEN DeviceConnect(d) ELSE d]
    /\ tabsLast' = [tab |-> t, op |-> "timer", call |-> "none"]
    /\ UNCHANGED <<tableVars, linesVars, csvVars, appVars, decodeVars, rowVars,
                   viewVars, numVars, multiVars, portVars>>

\* port.open() settles and connect goes on: the call is refused by the
\* port's state, fails for a reason outside the page, or resolves
TabsOpenSettled ==
  \E t \in TabIds, fails \in BOOLEAN :
    \E c \in 1..Len(tabs[t].conns) :
      /\ tabs[t].conns[c].pc = "open"
      /\ IF tabs[t].conns[c].ok /\ ~fails
         THEN LET r == RequestChange(tabs[t].state, "reading", NoOptions)
                  ts1 == Requested([tabs EXCEPT ![t].port = "open",
                                                ![t].conns[c].opened = TRUE],
                                   t, r)
                  d == IF r.result THEN DeviceParseRows(ts1[t], c) ELSE ts1[t]
              IN  /\ tabs' = [ts1 EXCEPT ![t] = ClosePortWhenDone(d, c)]
                  /\ tabsLast' = [tab |-> t, op |-> "opened",
                                  call |-> "deviceOpened"]
         ELSE LET r == RequestChange(tabs[t].state, "portGone",
                                     [message |-> ErrorMessage,
                                      optional |-> FALSE])
                  ts1 == [tabs EXCEPT ![t].port = IF tabs[t].conns[c].ok
                                                  THEN "closed" ELSE @,
                                      ![t].conns[c].pc = "done"]
              IN  /\ tabs' = Requested(ts1, t, r)
                  /\ tabsLast' = [tab |-> t, op |-> "openFailed",
                                  call |-> "deviceCrashed"]
      /\ UNCHANGED <<tableVars, linesVars, csvVars, appVars, decodeVars,
                     rowVars, viewVars, numVars, multiVars, portVars>>

\* the task #closePortWhenDone awaits has settled
TabsTaskSettled ==
  \E t \in TabIds :
    \E c \in 1..Len(tabs[t].conns) :
      /\ tabs[t].conns[c].pc = "await"
      /\ tabs[t].promises[tabs[t].conns[c].cur].state # "pending"
      /\ LET rejected ==
               tabs[t].promises[tabs[t].conns[c].cur].state = "rejected"
             ts1 == IF rejected
                    THEN Requested(tabs, t,
                           RequestChange(tabs[t].state, "portGone",
                                         [message |-> ErrorMessage,
                                          optional |-> FALSE]))
                    ELSE tabs
         IN  /\ tabs' = [ts1 EXCEPT ![t] = ClosePortWhenDone(ts1[t], c)]
             /\ tabsLast' = [tab |-> t, op |-> "taskSettled",
                             call |-> IF rejected THEN "deviceCrashed"
                                      ELSE "none"]
      /\ UNCHANGED <<tableVars, linesVars, csvVars, appVars, decodeVars,
                     rowVars, viewVars, numVars, multiVars, portVars>>

\* port.close() settles
TabsCloseSettled ==
  \E t \in TabIds, fails \in BOOLEAN :
    \E c \in 1..Len(tabs[t].conns) :
      /\ tabs[t].conns[c].pc = "close"
      /\ LET resolved == tabs[t].conns[c].ok /\ ~fails
             ts1 == [tabs EXCEPT ![t].port = IF tabs[t].conns[c].ok
                                             THEN "closed" ELSE @,
                                 ![t].conns[c].pc = "done"]
             r == IF resolved
                  THEN RequestChange(tabs[t].state, "closed",
                                     [message |-> Some(<<67, 108, 111, 115,
                                                         101, 100>>),
                                      optional |-> FALSE])
                  ELSE RequestChange(tabs[t].state, "portGone",
                                     [message |-> ErrorMessage,
                                      optional |-> FALSE])
         IN  /\ tabs' = Requested(ts1, t, r)
             /\ tabsLast' = [tab |-> t, op |-> "closeSettled",
                             call |-> IF resolved THEN "deviceClosed"
                                      ELSE "deviceCrashed"]
      /\ UNCHANGED <<tableVars, linesVars, csvVars, appVars, decodeVars,
                     rowVars, viewVars, numVars, multiVars, portVars>>

\* the read of a cancelled reader resolves with done, and decodeStream
\* releases the lock
TabsReadCancelled ==
  \E t \in TabIds :
    \E p \in 1..Len(tabs[t].promises) :
      /\ tabs[t].promises[p].kind = "parse"
      /\ tabs[t].promises[p].pc = "reading"
      /\ tabs[t].promises[p].cancelled
      /\ tabs' = [tabs EXCEPT ![t].promises[p].pc = "cancelStream",
                              ![t].promises[p].lock = "released"]
      /\ tabsLast' = [tab |-> t, op |-> "readCancelled", call |-> "none"]
      /\ UNCHANGED <<tableVars, linesVars, csvVars, appVars, decodeVars,
                     rowVars, viewVars, numVars, multiVars, portVars>>

\* the stream ends on its own, or a read fails
TabsStreamEnds ==
  \E t \in TabIds, error \in BOOLEAN :
    \E p \in 1..Len(tabs[t].promises) :
      /\ tabs[t].promises[p].kind = "parse"
      /\ tabs[t].promises[p].pc = "reading"
      /\ ~tabs[t].promises[p].cancelled
      /\ tabs' = [tabs EXCEPT ![t].promises[p].pc = "cancelStream",
                              ![t].promises[p].lock = "released",
                              ![t].promises[p].fails = error]
      /\ tabsLast' = [tab |-> t, op |-> "streamEnds", call |-> "none"]
      /\ UNCHANGED <<tableVars, linesVars, csvVars, appVars, decodeVars,
                     rowVars, viewVars, numVars, multiVars, portVars>>

\* stream.cancel() of #parseRows' finally settles, and with it the task
TabsParseSettled ==
  \E t \in TabIds :
    \E p \in 1..Len(tabs[t].promises) :
      /\ tabs[t].promises[p].kind = "parse"
      /\ tabs[t].promises[p].pc = "cancelStream"
      /\ tabs' = [tabs EXCEPT ![t].promises[p].pc = "done",
                              ![t].promises[p].state =
                                IF tabs[t].promises[p].fails
                                THEN "rejected" ELSE "fulfilled"]
      /\ tabsLast' = [tab |-> t, op |-> "parseSettled", call |-> "none"]
      /\ UNCHANGED <<tableVars, linesVars, csvVars, appVars, decodeVars,
                     rowVars, viewVars, numVars, multiVars, portVars>>

\* the promise of a reader.cancel() settles
TabsCancelSettled ==
  \E t \in TabIds :
    \E p \in 1..Len(tabs[t].promises) :
      /\ tabs[t].promises[p].kind = "cancel"
      /\ tabs[t].promises[p].state = "pending"
      /\ tabs' = [tabs EXCEPT ![t].promises[p].state =
                                tabs[t].promises[p].outcome]
      /\ tabsLast' = [tab |-> t, op |-> "cancelSettled", call |-> "none"]
      /\ UNCHANGED <<tableVars, linesVars, csvVars, appVars, decodeVars,
                     rowVars, viewVars, numVars, multiVars, portVars>>

TabsNext ==
  \/ TabsStart
  \/ TabsRestart
  \/ TabsStop
  \/ TabsStorage
  \/ TabsTimer
  \/ TabsOpenSettled
  \/ TabsTaskSettled
  \/ TabsCloseSettled
  \/ TabsReadCancelled
  \/ TabsStreamEnds
  \/ TabsParseSettled
  \/ TabsCancelSettled

TabsIdle ==
  /\ tabs = [t \in TabIds |-> NewTab]
  /\ tabsLast = [tab |-> 0, op |-> "idle", call |-> "none"]

-----------------------------------------------------------------------------
(* TextDecoder("utf-8", { fatal: false }) and TextEncoder                     *)

REPLACEMENT == 65533
BOM == 65279

\* TextEncoder.encode of one code point
EncodeChar(cp) ==
  IF cp < 128 THEN <<cp>>
  ELSE IF cp < 2048 THEN <<192 + (cp \div 64), 128 + (cp % 64)>>
  ELSE IF cp < 65536
       THEN <<224 + (cp \div 4096), 128 + ((cp \div 64) % 64), 128 + (cp % 64)>>
  ELSE <<240 + (cp \div 262144), 128 + ((cp \div 4096) % 64),
         128 + ((cp \div 64) % 64), 128 + (cp % 64)>>

RECURSIVE Encode(_)
Encode(text) == IF text = <<>> THEN <<>> ELSE EncodeChar(Head(text)) \o Encode(Tail(text))

NewDecoder ==
  [cp |-> 0, seen |-> 0, needed |-> 0, lower |-> 128, upper |-> 191,
   bomSeen |-> FALSE, doNotFlush |-> FALSE]

ResetBytes(d) == [d EXCEPT !.cp = 0, !.seen = 0, !.needed = 0, !.lower = 128, !.upper = 191]

\* one code point goes to the output: the first one only marks the byte
\* order mark as seen when it is U+FEFF (ignoreBOM is false)
Emit(r, cp) ==
  IF ~r.d.bomSeen /\ cp = BOM
  THEN [d |-> [r.d EXCEPT !.bomSeen = TRUE], out |-> r.out]
  ELSE [d |-> [r.d EXCEPT !.bomSeen = TRUE], out |-> Append(r.out, cp)]

\* the UTF-8 decoder's handler run over the bytes; r is [d, out]
RECURSIVE DecodeBytes(_, _)
DecodeBytes(r, bytes) ==
  IF bytes = <<>> THEN r
  ELSE
    LET b == Head(bytes)
        d == r.d
    IN  IF d.needed = 0
        THEN IF b <= 127 THEN DecodeBytes(Emit(r, b), Tail(bytes))
             ELSE IF b >= 194 /\ b <= 223
                  THEN DecodeBytes([r EXCEPT !.d.needed = 1, !.d.cp = b - 192],
                                   Tail(bytes))
             ELSE IF b >= 224 /\ b <= 239
                  THEN DecodeBytes([r EXCEPT !.d.needed = 2, !.d.cp = b - 224,
                                             !.d.lower = IF b = 224 THEN 160 ELSE 128,
                                             !.d.upper = IF b = 237 THEN 159 ELSE 191],
                                   Tail(bytes))
             ELSE IF b >= 240 /\ b <= 244
                  THEN DecodeBytes([r EXCEPT !.d.needed = 3, !.d.cp = b - 240,
                                             !.d.lower = IF b = 240 THEN 144 ELSE 128,
                                             !.d.upper = IF b = 244 THEN 143 ELSE 191],
                                   Tail(bytes))
             ELSE DecodeBytes(Emit(r, REPLACEMENT), Tail(bytes))
        ELSE IF b < d.lower \/ b > d.upper
             THEN DecodeBytes(Emit([r EXCEPT !.d = ResetBytes(d)], REPLACEMENT), bytes)
        ELSE IF d.seen + 1 = d.needed
             THEN DecodeBytes(Emit([r EXCEPT !.d = ResetBytes(d)], d.cp * 64 + (b - 128)),
                              Tail(bytes))
        ELSE DecodeBytes([r EXCEPT !.d.cp = d.cp * 64 + (b - 128),
                                   !.d.seen = d.seen + 1,
                                   !.d.lower = 128, !.d.upper = 191],
                         Tail(bytes))

\* a decode that forgets the bytes of an unfinished character at the end
\* instead of replacing them
TextDecode_DropPending(d0, bytes, stream) ==
  LET d1 == IF d0.doNotFlush THEN d0 ELSE NewDecoder
      r == DecodeBytes([d |-> [d1 EXCEPT !.doNotFlush = stream], out |-> <<>>], bytes)
  IN  IF stream \/ r.d.needed = 0 THEN r
      ELSE [r EXCEPT !.d = ResetBytes(r.d)]

\* decoder.decode(bytes, { stream }): the decoder afterwards and the string
TextDecode(d0, bytes, stream) ==
  LET d1 == IF d0.doNotFlush THEN d0 ELSE NewDecoder
      r == DecodeBytes([d |-> [d1 EXCEPT !.doNotFlush = stream], out |-> <<>>], bytes)
  IN  IF stream \/ r.d.needed = 0 THEN r
      ELSE Emit([r EXCEPT !.d = ResetBytes(r.d)], REPLACEMENT)

-----------------------------------------------------------------------------
(* decodeStream: an async generator over reader.read()                       *)

Settle(kind, value) == [kind |-> kind, value |-> value]

\* the finally block: reader.releaseLock()
ReleaseLock ==
  /\ dcReleases' = dcReleases + 1
  /\ dcLocked' = FALSE

\* the generator ends; the call at the head of the queue is settled
Complete(kind, how) ==
  /\ dcGen' = "completed"
  /\ dcSettled' = Append(dcSettled, Settle(kind, <<>>))
  /\ dcQueue' = Tail(dcQueue)
  /\ dcEnd' = how

\* yield result: the call at the head of the queue gets the chunk
Yield(result, at) ==
  /\ dcGen' = "suspendedYield"
  /\ dcAt' = at
  /\ dcSettled' = Append(dcSettled, Settle("value", result))
  /\ dcQueue' = Tail(dcQueue)

\* the characters of the strings decoded: "a", e acute (2 bytes), the euro
\* sign (3 bytes), a grinning face (4 bytes) and U+FEFF
TextChars == {97, 233, 8364, 128512, BOM}

\* byte sequences that are not valid UTF-8: the four of invalidUtf8Examples
\* and the first byte of e acute and the first two bytes of the euro sign,
\* each without the bytes that would complete it
InvalidUtf8 ==
  {<<255>>, <<192, 128>>, <<193, 128>>, <<237, 160, 128>>, <<195>>, <<226, 130>>}

DecodeInit ==
  /\ dcText \in StringsUpTo(TextChars, MaxChars)
  /\ dcBytes \in {Encode(dcText)}
                   \cup {Encode(dcText) \o bad : bad \in IF Len(dcText) <= 1
                                                        THEN InvalidUtf8
                                                        ELSE {}}
  /\ dcRest = dcBytes
  /\ dcReads = 0
  /\ dcDecoder = NewDecoder
  /\ dcGen = "suspendedStart"
  /\ dcAt = "loop"
  /\ dcQueue = <<>>
  /\ dcSettled = <<>>
  /\ dcReleases = 0
  /\ dcLocked = TRUE
  /\ dcEnd = "running"

\* the consumer calls next(), return() or throw() on the iterator
DecodeCall ==
  \E kind \in {"next", "return", "throw"} :
    /\ Len(dcQueue) < MaxQueue
    /\ Len(dcQueue) + Len(dcSettled) < MaxCalls
    /\ dcQueue' = Append(dcQueue, kind)
    /\ UNCHANGED <<dcText, dcBytes, dcRest, dcReads, dcDecoder, dcGen, dcAt, dcSettled,
                   dcReleases, dcLocked, dcEnd>>
    /\ UNCHANGED <<tableVars, linesVars, csvVars, appVars, rowVars, viewVars,
                   numVars, multiVars, portVars, tabsVars>>

\* a call reaches a generator that has not started: next() runs the body up
\* to the first await reader.read(); return() and throw() complete the
\* generator without entering the try statement
DecodeStart ==
  /\ dcGen = "suspendedStart"
  /\ dcQueue # <<>>
  /\ IF Head(dcQueue) = "next"
     THEN /\ dcGen' = "awaitingRead"
          /\ UNCHANGED <<dcQueue, dcSettled, dcEnd>>
     ELSE IF Head(dcQueue) = "return"
          THEN Complete("done", "returnBeforeStart")
          ELSE Complete("rejected", "throwBeforeStart")
  /\ UNCHANGED <<dcText, dcBytes, dcRest, dcReads, dcDecoder, dcAt, dcReleases, dcLocked>>
  /\ UNCHANGED <<tableVars, linesVars, csvVars, appVars, rowVars, viewVars,
                 numVars, multiVars, portVars, tabsVars>>

\* a call resumes the generator at a yield: next() goes on (to the next read,
\* or from the yield of the flush to the return and the finally block);
\* return() and throw() run the finally block and complete the generator
DecodeResume ==
  /\ dcGen = "suspendedYield"
  /\ dcQueue # <<>>
  /\ IF Head(dcQueue) = "next" /\ dcAt = "loop"
     THEN /\ dcGen' = "awaitingRead"
          /\ UNCHANGED <<dcQueue, dcSettled, dcEnd, dcReleases, dcLocked>>
     ELSE /\ ReleaseLock
          /\ IF Head(dcQueue) = "next" THEN Complete("done", "done")
             ELSE IF Head(dcQueue) = "return" THEN Complete("done", "return")
             ELSE Complete("rejected", "throw")
  /\ UNCHANGED <<dcText, dcBytes, dcRest, dcReads, dcDecoder, dcAt>>
  /\ UNCHANGED <<tableVars, linesVars, csvVars, appVars, rowVars, viewVars,
                 numVars, multiVars, portVars, tabsVars>>

\* a call reaches a completed generator
DecodeAfterEnd ==
  /\ dcGen = "completed"
  /\ dcQueue # <<>>
  /\ dcSettled' = Append(dcSettled,
                         Settle(IF Head(dcQueue) = "throw" THEN "rejected" ELSE "done",
                                <<>>))
  /\ dcQueue' = Tail(dcQueue)
  /\ UNCHANGED <<dcText, dcBytes, dcRest, dcReads, dcDecoder, dcGen, dcAt, dcReleases,
                 dcLocked, dcEnd>>
  /\ UNCHANGED <<tableVars, linesVars, csvVars, appVars, rowVars, viewVars,
                 numVars, multiVars, portVars, tabsVars>>

\* a read whose decoded text is yielded also when it is empty
DecodeReadChunk_YieldEmpty ==
  \E n \in 0..Len(dcRest) :
    /\ dcGen = "awaitingRead"
    /\ dcReads < MaxReads
    /\ LET r == TextDecode(dcDecoder, StrSlice(dcRest, 0, n), TRUE)
       IN  /\ dcDecoder' = r.d
           /\ Yield(r.out, "loop")
    /\ dcRest' = StrSlice(dcRest, n, Len(dcRest))
    /\ dcReads' = dcReads + 1
    /\ UNCHANGED <<dcText, dcBytes, dcReleases, dcLocked, dcEnd>>
    /\ UNCHANGED <<tableVars, linesVars, csvVars, appVars, rowVars, viewVars,
                   numVars, multiVars, portVars, tabsVars>>

\* reader.read() resolves with a chunk of any size, empty too
DecodeReadChunk ==
  \E n \in 0..Len(dcRest) :
    /\ dcGen = "awaitingRead"
    /\ dcReads < MaxReads
    /\ LET r == TextDecode(dcDecoder, StrSlice(dcRest, 0, n), TRUE)
       IN  /\ dcDecoder' = r.d
           /\ IF Len(r.out) > 0
              THEN Yield(r.out, "loop")
              ELSE UNCHANGED <<dcGen, dcAt, dcSettled, dcQueue>>
    /\ dcRest' = StrSlice(dcRest, n, Len(dcRest))
    /\ dcReads' = dcReads + 1
    /\ UNCHANGED <<dcText, dcBytes, dcReleases, dcLocked, dcEnd>>
    /\ UNCHANGED <<tableVars, linesVars, csvVars, appVars, rowVars, viewVars,
                   numVars, multiVars, portVars, tabsVars>>

\* reader.read() resolves with done: at the end of the bytes, or earlier when
\* the reader was cancelled
DecodeReadDone ==
  /\ dcGen = "awaitingRead"
  /\ LET r == TextDecode(dcDecoder, <<>>, FALSE)
     IN  /\ dcDecoder' = r.d
         /\ IF Len(r.out) > 0
            THEN /\ Yield(r.out, "flush")
                 /\ UNCHANGED <<dcReleases, dcLocked, dcEnd>>
            ELSE /\ ReleaseLock
                 /\ Complete("done", "done")
                 /\ UNCHANGED dcAt
  /\ UNCHANGED <<dcText, dcBytes, dcRest, dcReads>>
  /\ UNCHANGED <<tableVars, linesVars, csvVars, appVars, rowVars, viewVars,
                 numVars, multiVars, portVars, tabsVars>>

\* reader.read() rejects: the error leaves the generator through finally
DecodeReadReject ==
  /\ dcGen = "awaitingRead"
  /\ ReleaseLock
  /\ Complete("rejected", "error")
  /\ UNCHANGED <<dcText, dcBytes, dcRest, dcReads, dcDecoder, dcAt>>
  /\ UNCHANGED <<tableVars, linesVars, csvVars, appVars, rowVars, viewVars,
                 numVars, multiVars, portVars, tabsVars>>

DecodeNext ==
  \/ DecodeCall \/ DecodeStart \/ DecodeResume \/ DecodeAfterEnd
  \/ DecodeReadChunk \/ DecodeReadDone \/ DecodeReadReject

DecodeIdle ==
  /\ dcText = <<>>
  /\ dcBytes = <<>>
  /\ dcRest = <<>>
  /\ dcReads = 0
  /\ dcDecoder = NewDecoder
  /\ dcGen = "idle"
  /\ dcAt = "loop"
  /\ dcQueue = <<>>
  /\ dcSettled = <<>>
  /\ dcReleases = 0
  /\ dcLocked = FALSE
  /\ dcEnd = "idle"

-----------------------------------------------------------------------------
(* A TableBuffer and the slices a renderer takes from it.  The values array  *)
(* of a column slice is an object of its own or shares the storage of the    *)
(* buffer's column: own tells which, and data is what it held when taken.    *)

\* values that share the storage of the column instead of copying it
SliceValues_Subarray(b, i, sliceStart, sliceEnd) ==
  [own |-> FALSE, col |-> i, from |-> sliceStart, to |-> sliceEnd,
   data |-> TypedSlice(Val(b.columns)[i], sliceStart, sliceEnd)]

\* this.#columns[i].slice(sliceStart, sliceEnd): a new array with a copy
SliceValues(b, i, sliceStart, sliceEnd) ==
  [own |-> TRUE, col |-> i, from |-> sliceStart, to |-> sliceEnd,
   data |-> TypedSlice(Val(b.columns)[i], sliceStart, sliceEnd)]

\* the elements read now from a values array taken earlier
ReadValues(ref, b) ==
  IF ref.own \/ IsNull(b.columns) \/ ref.col > Len(Val(b.columns)) THEN ref.data
  ELSE TypedSlice(Val(b.columns)[ref.col], ref.from, ref.to)

\* slice() as the caller gets it: null, or the TableSlice with its values
\* arrays; reset and cleared tell what happened to the buffer since
TakeSlice(b) ==
  LET res == BufSlice(b, Null)
  IN  IF res.status # "ok" THEN Null
      ELSE Some([slice |-> Val(res.value),
                 values |-> [i \in 1..Len(Val(res.value).columns) |->
                               SliceValues(b, i, 0, b.rowEnd - b.rowStart)],
                 reset |-> FALSE,
                 cleared |-> FALSE])

\* a new table was started after the slice was taken
MarkReset(held) ==
  IF IsNull(held) THEN held ELSE Some([Val(held) EXCEPT !.reset = TRUE])

\* clear() was called after the slice was taken
MarkCleared(held) ==
  IF IsNull(held) THEN held ELSE Some([Val(held) EXCEPT !.cleared = TRUE])

\* the header rows "A" and "B"
ViewHeaders == {HeaderRow(<<(<<65>>)>>), HeaderRow(<<(<<66>>)>>)}

\* data rows of one value
ViewData == {DataRow(<<Num(FALSE, 1)>>), DataRow(<<Num(FALSE, 2)>>)}

ViewInit ==
  /\ vwBuf \in {NewTableBuffer(n) : n \in 0..MaxLimit}
  /\ vwTwin = vwBuf
  /\ vwSeen = Null
  /\ vwHeld = Null
  /\ vwOp = "new"

ViewPushHeader ==
  \E row \in ViewHeaders :
    /\ vwBuf.tablesSeen < MaxTables
    /\ vwBuf' = BufPush(vwBuf, row)
    /\ vwTwin' = BufPush(vwTwin, row)
    /\ vwSeen' = Null
    /\ vwHeld' = MarkReset(vwHeld)
    /\ vwOp' = "header"
    /\ UNCHANGED <<tableVars, linesVars, csvVars, appVars, decodeVars, rowVars,
                   numVars, multiVars, portVars, tabsVars>>

ViewPushData ==
  \E row \in ViewData :
    /\ vwBuf.rowEnd < MaxRows
    /\ IsNull(vwBuf.columnNames) => vwBuf.tablesSeen < MaxTables
    /\ vwBuf' = BufPush(vwBuf, row)
    /\ vwTwin' = BufPush(vwTwin, row)
    /\ vwSeen' = Null
    /\ vwHeld' = IF IsNull(vwBuf.columnNames) THEN MarkReset(vwHeld) ELSE vwHeld
    /\ vwOp' = "data"
    /\ UNCHANGED <<tableVars, linesVars, csvVars, appVars, decodeVars, rowVars,
                   numVars, multiVars, portVars, tabsVars>>

\* slice() without argument
ViewSlice ==
  /\ vwSeen' = TakeSlice(vwBuf)
  /\ vwOp' = "slice"
  /\ UNCHANGED <<vwBuf, vwTwin, vwHeld>>
  /\ UNCHANGED <<tableVars, linesVars, csvVars, appVars, decodeVars, rowVars,
                 numVars, multiVars, portVars, tabsVars>>

\* the renderer keeps the slice it was given
ViewHold ==
  /\ ~IsNull(vwSeen)
  /\ vwHeld' = vwSeen
  /\ vwOp' = "hold"
  /\ UNCHANGED <<vwBuf, vwTwin, vwSeen>>
  /\ UNCHANGED <<tableVars, linesVars, csvVars, appVars, decodeVars, rowVars,
                 numVars, multiVars, portVars, tabsVars>>

ViewClear ==
  /\ vwBuf' = BufClear(vwBuf)
  /\ vwTwin' = NewTableBuffer(vwBuf.rowLimit)
  /\ vwSeen' = Null
  /\ vwHeld' = MarkCleared(vwHeld)
  /\ vwOp' = "clear"
  /\ UNCHANGED <<tableVars, linesVars, csvVars, appVars, decodeVars, rowVars,
                 numVars, multiVars, portVars, tabsVars>>

ViewNext == ViewPushHeader \/ ViewPushData \/ ViewSlice \/ ViewHold \/ ViewClear

ViewIdle ==
  /\ vwBuf = NewTableBuffer(0)
  /\ vwTwin = NewTableBuffer(0)
  /\ vwSeen = Null
  /\ vwHeld = Null
  /\ vwOp = "idle"

-----------------------------------------------------------------------------
(* parseNumber as a state machine: a string is parsed, the number returned   *)
(* is written as a string and that string is parsed again                    *)

\* the characters of the strings given to parseNumber: space, "+", "-", ".",
\* "0", "1", "N", "a" and "e"
NumberChars == {32, 43, 45, 46, 48, 49, 78, 97, 101}

NumberInit ==
  /\ numInput \in StringsUpTo(NumberChars, MaxNumber)
  /\ numResult = Null
  /\ numString = Null
  /\ numAgain = Null
  /\ numPc = "parse"

\* const n = parseNumber(input)
NumberParse ==
  /\ numPc = "parse"
  /\ numResult' = ParseNumber(numInput)
  /\ numPc' = IF IsNull(numResult') THEN "done" ELSE "format"
  /\ UNCHANGED <<numInput, numString, numAgain>>
  /\ UNCHANGED <<tableVars, linesVars, csvVars, appVars, decodeVars, rowVars,
                 viewVars, multiVars, portVars, tabsVars>>

\* `${n}`
NumberFormat ==
  /\ numPc = "format"
  /\ numString' = Some(NumberToString(Val(numResult)))
  /\ numPc' = "again"
  /\ UNCHANGED <<numInput, numResult, numAgain>>
  /\ UNCHANGED <<tableVars, linesVars, csvVars, appVars, decodeVars, rowVars,
                 viewVars, multiVars, portVars, tabsVars>>

\* const n2 = parseNumber(`${n}`)
NumberParseAgain ==
  /\ numPc = "again"
  /\ numAgain' = ParseNumber(Val(numString))
  /\ numPc' = "done"
  /\ UNCHANGED <<numInput, numResult, numString>>
  /\ UNCHANGED <<tableVars, linesVars, csvVars, appVars, decodeVars, rowVars,
                 viewVars, multiVars, portVars, tabsVars>>

NumberNext == NumberParse \/ NumberFormat \/ NumberParseAgain

NumberIdle ==
  /\ numInput = <<>>
  /\ numResult = Null
  /\ numString = Null
  /\ numAgain = Null
  /\ numPc = "idle"

-----------------------------------------------------------------------------
(* The TableBuffer of the revision that keeps a list of tables, each with    *)
(* its own rows, and exposes them through the getter tables                  *)

NewTables(rowLimit) ==
  [rowLimit |-> rowLimit, tables |-> <<>>, tablesSeen |-> 0, rowCount |-> 0]

\* pushHeader that leaves an empty last table in the list
TablesPushHeader_KeepEmpty(b, columnNames) ==
  [b EXCEPT !.tables = Append(b.tables, [key |-> b.tablesSeen,
                                         columnNames |-> columnNames,
                                         rows |-> <<>>]),
            !.tablesSeen = b.tablesSeen + 1]

\* pushHeader(columnNames)
TablesPushHeader(b, columnNames) ==
  LET n == Len(b.tables)
      kept == IF n > 0 /\ Len(b.tables[n].rows) = 0
              THEN SubSeq(b.tables, 1, n - 1) ELSE b.tables
  IN  [b EXCEPT !.tables = Append(kept, [key |-> b.tablesSeen,
                                         columnNames |-> columnNames,
                                         rows |-> <<>>]),
                !.tablesSeen = b.tablesSeen + 1]

\* push(row); new Array(n).map(...) leaves the n elements empty, so the
\* default column names are n empty slots, written Null here
TablesPush(b, row) ==
  IF row.kind = "header" THEN TablesPushHeader(b, row.fields)
  ELSE
    LET b1 == IF Len(b.tables) = 0
              THEN TablesPushHeader(b, [i \in 1..Len(row.values) |-> Null])
              ELSE b
        n == Len(b1.tables)
        added == [b1.tables EXCEPT ![n].rows = Append(@, row)]
        rowCount == b1.rowCount + 1
        shifted == [added EXCEPT ![1].rows = Tail(@)]
    IN  IF rowCount > b1.rowLimit
        THEN [b1 EXCEPT !.tables = IF Len(shifted[1].rows) = 0
                                   THEN Tail(shifted) ELSE shifted,
                        !.rowCount = rowCount - 1]
        ELSE [b1 EXCEPT !.tables = added, !.rowCount = rowCount]

\* the getter tables: the list without an empty last table
Tables(b) ==
  LET n == Len(b.tables)
  IN  IF n > 0 /\ Len(b.tables[n].rows) = 0
      THEN SubSeq(b.tables, 1, n - 1) ELSE b.tables

TablesClear(b) == [b EXCEPT !.tables = <<>>, !.tablesSeen = 0, !.rowCount = 0]

MultiInit ==
  /\ mt \in {NewTables(n) : n \in 0..MaxLimit}
  /\ mtPushed = <<>>

\* buf.push({ key: -1, kind: "header", fields: ["abc"] })
MultiPushHeader ==
  /\ mt.tablesSeen < MaxRows + MaxTables
  /\ mt' = TablesPush(mt, [key |-> -1, kind |-> "header",
                           fields |-> <<(<<97, 98, 99>>)>>])
  /\ UNCHANGED mtPushed
  /\ UNCHANGED <<tableVars, linesVars, csvVars, appVars, decodeVars, rowVars,
                 viewVars, numVars, portVars, tabsVars>>

\* buf.push({ key: added, kind: "data", values: [added] })
MultiPushData ==
  /\ Len(mtPushed) < MaxRows
  /\ LET row == [key |-> Len(mtPushed), kind |-> "data",
                 values |-> <<Num(FALSE, Len(mtPushed))>>]
     IN  /\ mt' = TablesPush(mt, row)
         /\ mtPushed' = Append(mtPushed, row)
  /\ UNCHANGED <<tableVars, linesVars, csvVars, appVars, decodeVars, rowVars,
                 viewVars, numVars, portVars, tabsVars>>

MultiClear ==
  /\ mt' = TablesClear(mt)
  /\ mtPushed' = <<>>
  /\ UNCHANGED <<tableVars, linesVars, csvVars, appVars, decodeVars, rowVars,
                 viewVars, numVars, portVars, tabsVars>>

MultiNext == MultiPushHeader \/ MultiPushData \/ MultiClear

MultiIdle ==
  /\ mt = NewTables(0)
  /\ mtPushed = <<>>

-----------------------------------------------------------------------------
(* Specifications *)

\* a TableBuffer alone: the other components stay as they are
TableSpecInit ==
  /\ TableInit /\ LinesIdle /\ CsvIdle /\ AppIdle
  /\ DecodeIdle /\ RowIdle /\ ViewIdle /\ NumberIdle /\ MultiIdle /\ PortIdle /\ TabsIdle

SpecTable == TableSpecInit /\ [][TableNext]_vars

\* findLines alone: the other components stay as they are
LinesSpecInit ==
  /\ LinesInit /\ TableIdle /\ CsvIdle /\ AppIdle
  /\ DecodeIdle /\ RowIdle /\ ViewIdle /\ NumberIdle /\ MultiIdle /\ PortIdle /\ TabsIdle

SpecLines == LinesSpecInit /\ [][LinesNext]_vars

\* parseFields alone: the other components stay as they are
CsvSpecInit ==
  /\ CsvInit /\ TableIdle /\ LinesIdle /\ AppIdle
  /\ DecodeIdle /\ RowIdle /\ ViewIdle /\ NumberIdle /\ MultiIdle /\ PortIdle /\ TabsIdle

SpecCsv == CsvSpecInit /\ [][CsvNext]_vars

\* an AppState alone: the other components stay as they are
AppSpecInit ==
  /\ AppInit /\ TableIdle /\ LinesIdle /\ CsvIdle
  /\ DecodeIdle /\ RowIdle /\ ViewIdle /\ NumberIdle /\ MultiIdle /\ PortIdle /\ TabsIdle

SpecApp == AppSpecInit /\ [][AppNext]_vars

\* decodeStream alone: the other components stay as they are
DecodeSpecInit ==
  /\ DecodeInit /\ TableIdle /\ LinesIdle /\ CsvIdle
  /\ AppIdle /\ RowIdle /\ ViewIdle /\ NumberIdle /\ MultiIdle /\ PortIdle /\ TabsIdle

SpecDecode == DecodeSpecInit /\ [][DecodeNext]_vars

\* parseRow alone: the other components stay as they are
RowSpecInit ==
  /\ RowInit /\ TableIdle /\ LinesIdle /\ CsvIdle
  /\ AppIdle /\ DecodeIdle /\ ViewIdle /\ NumberIdle /\ MultiIdle /\ PortIdle /\ TabsIdle

SpecRow == RowSpecInit /\ [][RowNext]_vars

\* a TableBuffer and its slices alone
ViewSpecInit ==
  /\ ViewInit /\ TableIdle /\ LinesIdle /\ CsvIdle
  /\ AppIdle /\ DecodeIdle /\ RowIdle /\ NumberIdle /\ MultiIdle /\ PortIdle /\ TabsIdle

SpecView == ViewSpecInit /\ [][ViewNext]_vars

\* parseNumber alone: the other components stay as they are
NumberSpecInit ==
  /\ NumberInit /\ TableIdle /\ LinesIdle /\ CsvIdle
  /\ AppIdle /\ DecodeIdle /\ RowIdle /\ ViewIdle /\ MultiIdle /\ PortIdle /\ TabsIdle

SpecNumber == NumberSpecInit /\ [][NumberNext]_vars

\* an AppState with status requests alone
PortSpecInit ==
  /\ PortInit /\ TableIdle /\ LinesIdle /\ CsvIdle /\ AppIdle
  /\ DecodeIdle /\ RowIdle /\ ViewIdle /\ NumberIdle /\ MultiIdle /\ TabsIdle

SpecPort == PortSpecInit /\ [][PortNext]_vars

TabsSpecInit ==
  /\ TabsInit /\ TableIdle /\ LinesIdle /\ CsvIdle /\ AppIdle
  /\ DecodeIdle /\ RowIdle /\ ViewIdle /\ NumberIdle /\ MultiIdle /\ PortIdle

SpecTabs == TabsSpecInit /\ [][TabsNext]_vars

\* timers fire, storage events are delivered, and the operations of the port
\* and of the streams settle; the user and the device owe nothing
TabsFairness ==
  /\ WF_vars(TabsStorage) /\ WF_vars(TabsTimer)
  /\ WF_vars(TabsOpenSettled) /\ WF_vars(TabsTaskSettled)
  /\ WF_vars(TabsCloseSettled) /\ WF_vars(TabsReadCancelled)
  /\ WF_vars(TabsParseSettled) /\ WF_vars(TabsCancelSettled)

SpecTabsFair == TabsSpecInit /\ [][TabsNext]_vars /\ TabsFairness

\* the TableBuffer that keeps a list of tables alone
MultiSpecInit ==
  /\ MultiInit /\ TableIdle /\ LinesIdle /\ CsvIdle
  /\ AppIdle /\ DecodeIdle /\ RowIdle /\ ViewIdle /\ NumberIdle /\ PortIdle /\ TabsIdle

SpecMulti == MultiSpecInit /\ [][MultiNext]_vars

-----------------------------------------------------------------------------
(* Properties of the TableBuffer *)

InRange(r, b) == b.rowStart <= r.start /\ r.start <= r.end /\ r.end <= b.rowEnd

OutOfRange(r, b) == r.start < b.rowStart \/ r.end > b.rowEnd

\* C1: after any sequence of pushes the retained range [rowStart, rowEnd) has
\* length min(rowLimit, data rows pushed since the last header), rowEnd is the
\* number of data rows pushed since the last header, and so the retained
\* indices are the most recently pushed ones, contiguous and increasing.
C1_Retention ==
  /\ buf.rowEnd = Len(pushed)
  /\ buf.rowStart <= buf.rowEnd
  /\ RangeLength(BufRange(buf)) = Min(buf.rowLimit, Len(pushed))
  /\ {i \in 0..(Len(pushed) - 1) : buf.rowStart <= i /\ i < buf.rowEnd}
       = {i \in 0..(Len(pushed) - 1) : i >= Len(pushed) - Min(buf.rowLimit, Len(pushed))}

\* a push has evicted: more data rows were pushed than a non-empty buffer holds
C1_Witness ==
  /\ last.op = "push"
  /\ buf.rowLimit >= 1
  /\ Len(pushed) > buf.rowLimit
  /\ buf.rowStart > 0

\* C2: for every range r inside the retained range, slice(r) gives every
\* column i a value sequence of length r.length whose j-th entry is the value
\* pushed in column i for row index r.start + j.
C2_SliceExact ==
  \A r \in SliceRanges :
    (~IsNull(buf.columnNames) /\ InRange(r, buf)) =>
      LET s == BufSlice(buf, Some(r))
      IN  /\ s.status = "ok"
          /\ Val(s.value).range = r
          /\ Len(Val(s.value).columns) = Len(Val(buf.columnNames))
          /\ \A i \in 1..Len(Val(s.value).columns) :
               LET values == Val(s.value).columns[i].values
               IN  /\ Len(values) = RangeLength(r)
                   /\ \A j \in 0..(RangeLength(r) - 1) :
                        i <= Len(pushed[r.start + j + 1]) =>
                          values[j + 1] = pushed[r.start + j + 1][i]

\* slice returned a non-empty window of a buffer that has evicted rows
C2_Witness ==
  /\ last.op = "slice"
  /\ buf.rowStart > 0
  /\ ~IsNull(last.arg)
  /\ RangeLength(Val(last.arg)) > 0
  /\ Val(last.result).status = "ok"
  /\ Len(Val(buf.columnNames)) = 2

\* C5 as stated: every out-of-range slice request raises an error, in every
\* state of the buffer, also before any row was pushed.
C5_Original ==
  (last.op = "slice" /\ ~IsNull(last.arg) /\ OutOfRange(Val(last.arg), buf)) =>
    Val(last.result).status = "throw"

\* C5, amended: an out-of-range slice request raises an error whenever a table
\* exists; while no table exists slice returns null for every request.  In
\* both cases the call leaves the buffer unchanged.
C5_SliceFailsLoudly ==
  [][(last'.op = "slice" /\ ~IsNull(last'.arg) /\ OutOfRange(Val(last'.arg), buf)) =>
       /\ buf' = buf
       /\ Val(last'.result).status =
            (IF IsNull(buf.columnNames) THEN "null" ELSE "throw")]_vars

\* an out-of-range request on a buffer holding rows was refused
C5_Witness ==
  /\ last.op = "slice"
  /\ Val(last.result).status = "throw"
  /\ Len(pushed) > 0

\* C6: push of a header row adds one to key, makes the header's fields the
\* column names and empties the retained range; afterwards no slice request
\* returns a value of the previous generation.
C6_HeaderStartsGeneration ==
  [][(last'.op = "push" /\ Val(last'.arg).kind = "header") =>
       /\ BufKey(buf') = BufKey(buf) + 1
       /\ buf'.columnNames = Some(Val(last'.arg).fields)
       /\ BufRange(buf') = range(0, 0)
       /\ \A r \in SliceRanges :
            LET s == BufSlice(buf', Some(r))
            IN  \/ s.status = "throw"
                \/ /\ s.status = "ok"
                   /\ \A i \in 1..Len(Val(s.value).columns) :
                        Val(s.value).columns[i].values = <<>>]_vars

\* a header arrived on a table and started the second generation
C6_Witness ==
  /\ last.op = "push"
  /\ Val(last.arg).kind = "header"
  /\ BufKey(buf) = 2
  /\ BufRange(buf) = range(0, 0)


\* a push of the data row in last' onto a table that exists in this state
DataPushOnTable ==
  /\ last'.op = "push"
  /\ Val(last'.arg).kind = "data"
  /\ ~IsNull(buf.columnNames)

\* C15: a push of a DataRow whose number of values differs from the number
\* of columns of the active table leaves key, columnNames, the retained range
\* and the stored values unchanged.
C15_ArityMismatchIgnored ==
  [][(DataPushOnTable
        /\ Len(Val(last'.arg).values) # Len(Val(buf.columnNames)))
       => buf' = buf]_vars

\* C16: over any sequence of push, slice and clear the key never decreases.
C16_KeyNeverDecreases ==
  [][BufKey(buf') >= BufKey(buf)]_vars

\* C18 as stated: the index given to a newly pushed data row is greater than
\* the index of every data row pushed before it, and rowStart and rowEnd
\* never decrease.
C18_Original ==
  [][/\ buf'.rowStart >= buf.rowStart
     /\ buf'.rowEnd >= buf.rowEnd
     /\ (last'.op = "push" /\ Val(last'.arg).kind = "data")
          => buf'.rowEnd - 1 >= buf.rowEnd]_vars

\* C18: while the table stays the same, the index given to a newly pushed
\* data row is rowEnd, greater than the index of every row pushed to the
\* table before, also when the push evicts, and rowStart and rowEnd never
\* decrease; a header and clear() set both to 0, and the first data row of a
\* table has index 0 again.
C18_IndicesIncrease ==
  [][/\ DataPushOnTable
          => /\ BufKey(buf') = BufKey(buf)
             /\ buf'.rowEnd = buf.rowEnd + 1
             /\ buf'.rowStart >= buf.rowStart
             /\ buf'.rowStart <= buf.rowStart + 1
     /\ last'.op = "slice"
          => (buf'.rowStart = buf.rowStart /\ buf'.rowEnd = buf.rowEnd)
     /\ (last'.op = "push" /\ Val(last'.arg).kind = "header")
          => (buf'.rowStart = 0 /\ buf'.rowEnd = 0)
     /\ last'.op = "clear"
          => (buf'.rowStart = 0 /\ buf'.rowEnd = 0)
     /\ (last'.op = "push" /\ Val(last'.arg).kind = "data" /\ IsNull(buf.columnNames))
          => (buf'.rowEnd = 1 /\ buf'.rowStart \in {0, 1})]_vars

\* two rows were evicted from a buffer of one row: the row just pushed has
\* index 2 in the one storage slot
C18_Witness ==
  /\ last.op = "push"
  /\ Val(last.arg).kind = "data"
  /\ buf.rowLimit = 1
  /\ buf.rowStart = 2
  /\ buf.rowEnd = 3

\* C21: a push of a DataRow with N values while no table exists (a new buffer,
\* or after clear) starts generation 1 with the column names "Column 1" ..
\* "Column N" and gives the row the index 0, stored in a buffer that holds at
\* least one row; a data row pushed onto a table changes neither key nor
\* columnNames.
C21_ImplicitTable ==
  [][(last'.op = "push" /\ Val(last'.arg).kind = "data") =>
       LET values == Val(last'.arg).values
       IN  IF IsNull(buf.columnNames)
           THEN /\ BufKey(buf') = 1
                /\ buf'.columnNames =
                     Some([i \in 1..Len(values) |->
                             <<67, 111, 108, 117, 109, 110, 32, 48 + i>>])
                /\ buf'.rowEnd = 1
                /\ buf.rowLimit >= 1 =>
                     /\ BufRange(buf') = range(0, 1)
                     /\ \A i \in 1..Len(values) :
                          Val(buf'.columns)[i][1] = values[i]
           ELSE /\ BufKey(buf') = BufKey(buf)
                /\ buf'.columnNames = buf.columnNames]_vars

\* a row of two values started generation 1 and is the first row of the
\* table "Column 1", "Column 2"
C21_Witness ==
  /\ last.op = "push"
  /\ Val(last.arg).kind = "data"
  /\ Len(Val(last.arg).values) = 2
  /\ buf.rowLimit >= 1
  /\ BufKey(buf) = 1
  /\ BufRange(buf) = range(0, 1)
  /\ buf.columnNames = Some(<<DefaultColumnName(0), DefaultColumnName(1)>>)

-----------------------------------------------------------------------------
(* Properties of findLines *)

RECURSIVE ConcatAll(_)
ConcatAll(ss) == IF ss = <<>> THEN <<>> ELSE Head(ss) \o ConcatAll(Tail(ss))

\* the number of characters delivered before chunk k + 1
FedBefore(k) == Len(ConcatAll(SubSeq(lnFed, 1, k)))

\* C4: however the text is cut into chunks, findLines yields the same ordered
\* list of lines as splitting the whole text once on optional-CR-then-LF.
C4_LinesLaw ==
  lnPc = "done" => (ConcatAll(lnFed) = lnInput /\ lnOut = SplitLines(lnInput))

\* the text was cut between a CR and the LF that follows it, and after an
\* empty chunk, and findLines has finished
C4_Witness ==
  /\ lnPc = "done"
  /\ \E k \in 1..(Len(lnFed) - 1) :
       /\ FedBefore(k) >= 1
       /\ FedBefore(k) < Len(lnInput)
       /\ lnInput[FedBefore(k)] = RETURN
       /\ lnInput[FedBefore(k) + 1] = NEWLINE
  /\ Len(lnOut) = 2

\* C22: when the input has ended, findLines has yielded one line more than
\* the input holds terminators (LF, with the CR before it if there is one):
\* line k is the text between terminator k - 1 and terminator k, in order and
\* without the terminator, and the last line is the remainder after the last
\* terminator, yielded also when it is empty.  An input of no chunks gives
\* one empty line, and an input that ends with a terminator gives a last line
\* that is empty.
C22_LinesAtEnd ==
  lnPc = "done" =>
    LET n == Len(lnInput)
        feeds == {i \in 1..n : lnInput[i] = NEWLINE}
        N == Cardinality(feeds)
        \* the position of the k-th LF
        feed(k) == CHOOSE p \in feeds : Cardinality({q \in feeds : q < p}) = k - 1
        first(k) == IF k = 1 THEN 1 ELSE feed(k - 1) + 1
        stop(k) == IF k = N + 1 THEN n
                   ELSE IF feed(k) > first(k) /\ lnInput[feed(k) - 1] = RETURN
                        THEN feed(k) - 2
                        ELSE feed(k) - 1
    IN  /\ Len(lnOut) = N + 1
        /\ \A k \in 1..(N + 1) : lnOut[k] = SubSeq(lnInput, first(k), stop(k))
        /\ \A k \in 1..(N + 1) : \A i \in 1..Len(lnOut[k]) : lnOut[k][i] # NEWLINE
        /\ lnFed = <<>> => lnOut = <<(<<>>)>>
        /\ (n > 0 /\ lnInput[n] = NEWLINE) => lnOut[N + 1] = <<>>

\* the input held two terminators, the last one a CR LF at its end, and
\* findLines has ended with an empty third line
C22_Witness ==
  /\ lnPc = "done"
  /\ Len(lnInput) = 3
  /\ lnInput[1] = NEWLINE
  /\ lnInput[2] = RETURN
  /\ lnInput[3] = NEWLINE
  /\ lnOut = <<(<<>>), (<<>>), (<<>>)>>

\* C33: building the view props never fails: in every reachable AppState
\* max(tableRange.start, plotRange.start) <= min(tableRange.end,
\* plotRange.end), so that the getter props constructs a valid range, and
\* its slice request lies within the retained rows and does not throw.
C33_PropsNeverFails ==
  /\ Max(BufRange(app.rows).start, app.plotSettings.range.start)
       <= Min(BufRange(app.rows).end, app.plotSettings.range.end)
  /\ ~Props(app).threw

\* the log lines of the pushed lines numbered from..to, keyed from 0
LogLines(lines, from, to) ==
  [i \in 1..(to - from + 1) |-> [key |-> from + i - 2, value |-> lines[from + i - 1]]]

\* C39: after any sequence of n pushed lines in one session, log.head holds
\* the first min(n, logHeadLimit) lines and log.tail the last
\* min(n, logTailLimit) lines, in the order they came, and the keys of the
\* lines are 0, 1, 2, ... in that order, so they increase in head and in tail.
C39_BoundedLog ==
  LET n == Len(appPushed)
  IN  /\ app.linesAdded = n
      /\ app.log.head = LogLines(appPushed, 1, Min(n, logHeadLimit))
      /\ app.log.tail = LogLines(appPushed, n - Min(n, logTailLimit) + 1, n)
      /\ \A i \in 1..(Len(app.log.head) - 1) :
            app.log.head[i].key < app.log.head[i + 1].key
      /\ \A i \in 1..(Len(app.log.tail) - 1) :
            app.log.tail[i].key < app.log.tail[i + 1].key

\* head and tail are full, a refused line was among the lines pushed, and
\* tail has moved past the lines that head holds
C39_Witness ==
  /\ Len(appPushed) >= logHeadLimit + logTailLimit
  /\ \E i \in 1..Len(appPushed) : IsNull(ParseRow(appPushed[i]))
  /\ app.log.head[Len(app.log.head)].key < app.log.tail[1].key

\* the transitions that canChangeTo permits
Permitted ==
  {<<"start", "connecting">>,
   <<"connecting", "reading">>, <<"connecting", "closing">>,
   <<"connecting", "portGone">>,
   <<"reading", "closing">>, <<"reading", "portGone">>,
   <<"closing", "closed">>, <<"closing", "portGone">>,
   <<"closed", "connecting">>, <<"closed", "portGone">>}

\* C30: the status of an AppState changes only along the permitted
\* transitions, in every call; a requestChange for any other transition
\* returns false, leaves status, log, table buffer and plot settings as they
\* were and dispatches no event, and a requestChange for a permitted one
\* returns true, takes the status wanted and dispatches a status event.
C30_StatusTransitions ==
  [][/\ port'.status # port.status => <<port.status, port'.status>> \in Permitted
     /\ portLast'.op = "requestChange" =>
          IF <<port.status, portLast'.wanted>> \in Permitted
          THEN /\ portLast'.result
               /\ port'.status = portLast'.wanted
               /\ \E i \in 1..Len(portLast'.events) : portLast'.events[i] = "status"
          ELSE /\ ~portLast'.result
               /\ port'.status = port.status
               /\ port'.log = port.log
               /\ port'.linesAdded = port.linesAdded
               /\ port'.rows = port.rows
               /\ port'.plotSettings = port.plotSettings
               /\ portLast'.events = <<>>]_vars

\* a request to read was refused while the port was closed, with a message
\* that was not logged, after rows of the session had been stored
C30_Witness ==
  /\ portLast.op = "requestChange"
  /\ portLast.wanted = "reading"
  /\ ~IsNull(portLast.options.message)
  /\ ~portLast.result
  /\ port.status = "closed"
  /\ BufRange(port.rows) = range(0, 1)
  /\ Len(port.log.tail) = 1

\* whether the sequence s begins with the sequence p
StartsWith(s, p) == Len(p) <= Len(s) /\ SubSeq(s, 1, Len(p)) = p

\* C37: "portGone" is terminal: once the status is "portGone" no call
\* changes it (requestChange with any status wanted, as the device and the
\* user make it, requestClose from Stop or from another tab, a pushed
\* line), every status request returns false, and log and table are not
\* cleared afterwards: the log keeps its key and the lines of head, the
\* line counter and the table key do not go back, and a table stays a table.
C37_PortGoneTerminal ==
  [][port.status = "portGone" =>
       /\ port'.status = "portGone"
       /\ portLast'.op \in {"requestChange", "requestClose"} =>
            (~portLast'.result /\ port'.log = port.log /\ port'.rows = port.rows)
       /\ port'.log.key = port.log.key
       /\ StartsWith(port'.log.head, port.log.head)
       /\ port'.linesAdded >= port.linesAdded
       /\ BufKey(port'.rows) >= BufKey(port.rows)
       /\ ~IsNull(port.rows.columnNames) => ~IsNull(port'.rows.columnNames)]_vars

\* a restart was refused after the port was gone; the crash message is the
\* last line of the log and the table of the session is still there
C37_Witness ==
  /\ port.status = "portGone"
  /\ portLast.op = "requestChange"
  /\ portLast.wanted = "connecting"
  /\ ~portLast.result
  /\ BufRange(port.rows) = range(0, 1)
  /\ Len(port.log.tail) = 2
  /\ port.log.tail[2].value = Starred(<<67, 108, 111, 115, 101, 100>>)

-----------------------------------------------------------------------------
(* Properties of the TableBuffer that keeps a list of tables *)

\* C29: after every push of a header or a data row, for every rowLimit from
\* 0, the rows of the tables that the getter tables exposes, read table by
\* table, are the last min(rowLimit, data rows pushed) data rows in the order
\* they were pushed, also across headers, and no exposed table is empty.
C29_LastRowsKept ==
  LET exposed == Tables(mt)
      N == Len(mtPushed)
      kept == IF mt.rowLimit < N THEN mt.rowLimit ELSE N
  IN  /\ ConcatAll([i \in 1..Len(exposed) |-> exposed[i].rows])
           = SubSeq(mtPushed, N - kept + 1, N)
      /\ \A i \in 1..Len(exposed) : Len(exposed[i].rows) > 0

\* a buffer of two rows has dropped the first of three rows and, with it,
\* the first table; the rows it keeps are in two tables, and a header has
\* come after them
C29_Witness ==
  /\ mt.rowLimit = 2
  /\ Len(mtPushed) = 3
  /\ Len(mt.tables) = 3
  /\ Len(Tables(mt)) = 2
  /\ Tables(mt)[1].key = 1

-----------------------------------------------------------------------------
(* Properties of parseFields *)

\* C9: for every line, parseFields either refuses (null) or returns exactly
\* the fields of the first row the reference CSV parser finds in the line.
C9_AgreesOrRefuses ==
  csvPc = "done" =>
    (IsNull(csvFields) \/ csvFields = CsvParseFirstRow(csvLine))

\* a raw line with a quoted field and a comma was accepted
C9_Witness ==
  /\ csvPc = "done"
  /\ IsNull(csvRecord)
  /\ ~IsNull(csvFields)
  /\ Len(Val(csvFields)) = 2
  /\ Includes(csvLine, QUOTE)

\* C10 as stated: a record of two or more fields without control characters,
\* written by the CSV writer, is read back by parseFields as the same field
\* list; every single string written as one quoted field is read back as the
\* one-element list holding it.
C10_Original ==
  (csvPc = "done" /\ ~IsNull(csvRecord)) => csvFields = csvRecord

\* C10: a record of two or more fields without control characters, written
\* by the CSV writer, is read back by parseFields as the same field list; a
\* single string without CR and LF written as one quoted field is read back
\* as the one-element list holding it, and one with a CR or LF is refused.
C10_RoundTrip ==
  (csvPc = "done" /\ ~IsNull(csvRecord)) =>
    IF /\ Len(Val(csvRecord)) = 1
       /\ \E k \in 1..Len(Val(csvRecord)[1]) : Val(csvRecord)[1][k] \in {RETURN, NEWLINE}
    THEN IsNull(csvFields)
    ELSE csvFields = csvRecord

\* a record of two fields, one with a quote and a comma in it, went round
C10_Witness ==
  /\ csvPc = "done"
  /\ ~IsNull(csvRecord)
  /\ Len(Val(csvRecord)) = 2
  /\ Val(csvRecord)[1] = <<QUOTE, COMMA>>
  /\ Val(csvRecord)[2] = <<>>
  /\ csvFields = csvRecord

PlainFieldsBefore(s) ==
  s = <<>> \/ (/\ s[Len(s)] = COMMA
               /\ \A k \in 1..Len(s) : s[k] \notin {QUOTE, RETURN, NEWLINE})

\* the text s, which begins at the start of a field and runs to the end of
\* the line, begins with a field of one of the refused kinds.  In a quoted
\* field the quotes come in runs; a run of odd length ends with the closing
\* quote, a run of even length holds escaped quotes only.
RefusedField(s) ==
  IF s # <<>> /\ s[1] = QUOTE
  THEN LET rest == Tail(s)
           n == Len(rest)
           run(j) == j - (IF \E i \in 1..j : rest[i] # QUOTE
                          THEN CHOOSE i \in 1..j :
                                 /\ rest[i] # QUOTE
                                 /\ \A h \in (i + 1)..j : rest[h] = QUOTE
                          ELSE 0)
           closes(j) == /\ rest[j] = QUOTE
                        /\ j = n \/ rest[j + 1] # QUOTE
                        /\ run(j) % 2 = 1
           close == IF \E j \in 1..n : closes(j)
                    THEN CHOOSE j \in 1..n : closes(j) /\ \A i \in 1..(j - 1) : ~closes(i)
                    ELSE n + 1
           break == FirstOf(rest, {RETURN, NEWLINE})
       IN  \/ close = n + 1 /\ break = n + 1          \* never closed
           \/ break < close                            \* CR or LF inside
           \/ /\ close < n                             \* closed, then
              /\ break > close                         \* another character
              /\ rest[close + 1] # COMMA
  ELSE LET field == SubSeq(s, 1, FirstOf(s, {COMMA}) - 1)
       IN  \E k \in 1..Len(field) : field[k] \in {QUOTE, RETURN, NEWLINE}

\* C26: parseFields refuses the whole line when a field of it (the first, or
\* one after unquoted fields) is a quoted field that is never closed, a
\* quoted field whose closing quote is followed by a character that is
\* neither a comma nor a quote, a quoted field with a CR or LF in it, or an
\* unquoted field with a quote, a CR or a LF in it.
C26_Refusals ==
  csvPc = "done" =>
    \A k \in 0..Len(csvLine) :
      (/\ PlainFieldsBefore(SubSeq(csvLine, 1, k))
       /\ RefusedField(SubSeq(csvLine, k + 1, Len(csvLine))))
        => IsNull(csvFields)

\* the line a,"a with a second field that is never closed was refused
C26_Witness ==
  /\ csvPc = "done"
  /\ csvLine = <<97, COMMA, QUOTE, 97>>
  /\ IsNull(csvFields)

-----------------------------------------------------------------------------
(* Properties of AppState *)

\* C7: when parseRow refuses a line, pushDeviceOutput appends the line to the
\* log, leaves the table buffer and the plot settings as they were and throws
\* nothing, so the lines that follow are processed as if it had not come.
C7_MalformedLineNotFatal ==
  [][(appLast'.op = "pushDeviceOutput" /\ IsNull(ParseRow(appLast'.line))) =>
       /\ ~app'.threw
       /\ app'.rows = app.rows
       /\ app'.plotSettings = app.plotSettings
       /\ app'.linesAdded = app.linesAdded + 1
       /\ app'.log.tail[Len(app'.log.tail)] =
            [key |-> app.linesAdded, value |-> appLast'.line]
       /\ app'.log.head = (IF Len(app.log.head) < logHeadLimit
                           THEN Append(app.log.head, [key |-> app.linesAdded,
                                                      value |-> appLast'.line])
                           ELSE app.log.head)]_vars

\* a refused line was logged between two data rows, and the row after it was
\* stored
C7_Witness ==
  /\ appLast.op = "pushDeviceOutput"
  /\ ~app.threw
  /\ Len(app.log.tail) = 2
  /\ IsNull(ParseRow(app.log.tail[1].value))
  /\ app.log.tail[2].value = <<49, 44, 50>>
  /\ app.log.tail[2].key = 2
  /\ BufRange(app.rows) = range(0, 2)

-----------------------------------------------------------------------------
(* Properties of decodeStream *)

\* the text chunks yielded so far
RECURSIVE Values(_)
Values(settled) ==
  IF settled = <<>> THEN <<>>
  ELSE (IF Head(settled).kind = "value" THEN <<Head(settled).value>> ELSE <<>>)
         \o Values(Tail(settled))

\* C3: however the iteration ends (input exhausted, return(), throw(), a
\* rejected read), the reader lock has been released exactly once when the
\* generator has completed, and releaseLock is never called twice.
C3_ReleasedExactlyOnce ==
  /\ dcReleases <= 1
  /\ dcGen = "completed" => (dcReleases = 1 /\ ~dcLocked)

\* C3 for a generator that was started by a first next(): the lock is
\* released exactly once when the generator has completed, and not before.
C3_ReleasedOnceStarted ==
  /\ dcReleases <= 1
  /\ (dcGen = "completed" /\ dcEnd \notin {"returnBeforeStart", "throwBeforeStart"})
       => (dcReleases = 1 /\ ~dcLocked)
  /\ dcGen # "completed" => (dcReleases = 0 /\ dcLocked)

\* C8: for a valid string encoded as UTF-8 and cut into chunks at any
\* positions, the text chunks decodeStream has yielded when the bytes are
\* exhausted concatenate to the string.
C8_SplitInvariance ==
  (dcGen = "completed" /\ dcEnd = "done" /\ dcRest = <<>>
     /\ dcBytes = Encode(dcText)) =>
    ConcatAll(Values(dcSettled)) = dcText

\* C8 for strings that do not begin with U+FEFF
C8_SplitInvarianceNoBOM ==
  (dcGen = "completed" /\ dcEnd = "done" /\ dcRest = <<>>
     /\ dcBytes = Encode(dcText)
     /\ (dcText = <<>> \/ dcText[1] # BOM)) =>
    ConcatAll(Values(dcSettled)) = dcText

\* C23: no text chunk decodeStream yields is empty, whatever bytes arrive in
\* whatever chunks: a read that decodes to the empty string (an empty chunk,
\* the first bytes of a character, a byte order mark) and a flush that decodes
\* to the empty string settle no call with a value.
C23_NoEmptyChunk ==
  /\ \A i \in 1..Len(dcSettled) :
       dcSettled[i].kind = "value" => Len(dcSettled[i].value) > 0
  /\ Len(Values(dcSettled)) <= dcReads + 1

\* the three bytes of the euro sign came in three reads: two reads yielded
\* nothing, the third yielded the character and the flush yielded nothing
C23_Witness ==
  /\ dcText = <<8364>>
  /\ dcBytes = Encode(dcText)
  /\ dcReads = 3
  /\ dcGen = "completed"
  /\ dcEnd = "done"
  /\ Values(dcSettled) = <<dcText>>

\* C24: bytes that are not valid UTF-8 are replaced: when they have all been
\* read, in whatever chunks, and the iteration has ended normally, the text
\* yielded holds U+FFFD; and a read that reports the end while the decoder
\* holds the first bytes of a character yields U+FFFD for them, while one
\* that finds nothing pending completes the iteration.  Nothing is raised:
\* the iteration ends in an error only when a read rejects or the consumer
\* calls throw().
C24_InvalidReplaced ==
  /\ []((dcGen = "completed" /\ dcEnd = "done" /\ dcRest = <<>>
           /\ dcBytes # Encode(dcText))
          => \E k \in 1..Len(ConcatAll(Values(dcSettled))) :
               ConcatAll(Values(dcSettled))[k] = REPLACEMENT)
  /\ [][/\ (dcGen = "awaitingRead" /\ dcGen' # dcGen /\ dcReads' = dcReads
             /\ dcEnd' # "error")
            => IF dcDecoder.needed > 0
               THEN /\ dcGen' = "suspendedYield"
                    /\ dcAt' = "flush"
                    /\ dcSettled' =
                         Append(dcSettled, Settle("value", <<REPLACEMENT>>))
               ELSE /\ dcGen' = "completed"
                    /\ dcEnd' = "done"
                    /\ Values(dcSettled') = Values(dcSettled)
        /\ dcReads' # dcReads
            => /\ dcEnd' = dcEnd
               /\ dcGen' \in {"awaitingRead", "suspendedYield"}
               /\ \A i \in 1..Len(dcSettled') : dcSettled'[i].kind # "rejected"]_vars

\* the first two bytes of the euro sign were read after "a" and the input
\* ended: the flush yielded U+FFFD and the iteration has ended
C24_Witness ==
  /\ dcText = <<97>>
  /\ dcBytes = <<97, 226, 130>>
  /\ dcRest = <<>>
  /\ dcGen = "completed"
  /\ dcEnd = "done"
  /\ Values(dcSettled) = <<(<<97>>), (<<REPLACEMENT>>)>>

-----------------------------------------------------------------------------
(* Properties of parseNumber *)

\* C27: when parseNumber accepts a string with the result n, it accepts the
\* string form of n and returns the same value, where NaN is the same as NaN
\* and the two zeros are the same.
C27_NumberRoundTrip ==
  (numPc = "done" /\ ~IsNull(numResult)) =>
    /\ ~IsNull(numAgain)
    /\ \/ Val(numAgain) = Val(numResult)
       \/ /\ ~Val(numAgain).nan /\ ~Val(numResult).nan
          /\ Val(numAgain).mag = 0 /\ Val(numResult).mag = 0

\* "1e-1" was read as one tenth, written as "0.1" and read as one tenth
C27_Witness ==
  /\ numPc = "done"
  /\ numInput = <<49, 101, 45, 49>>
  /\ numString = Some(<<48, 46, 49>>)
  /\ numAgain = numResult
  /\ numResult = Some(Decimal(FALSE, 1, -1))

\* C28: parseNumber never returns negative zero: every accepted spelling of
\* negative zero ("-0", also with white space around it, "-0.0", "-0e0", ...)
\* gives positive zero.
C28_NoNegativeZero ==
  (numPc # "parse" /\ ~IsNull(numResult)) =>
    ~(~Val(numResult).nan /\ Val(numResult).neg /\ Val(numResult).mag = 0)

-----------------------------------------------------------------------------
(* Properties of parseRow *)

\* the fields of a line without quotes: the pieces between its commas
RECURSIVE CommaFields(_, _)
CommaFields(line, cur) ==
  IF line = <<>> THEN <<cur>>
  ELSE IF Head(line) = COMMA THEN <<cur>> \o CommaFields(Tail(line), <<>>)
  ELSE CommaFields(Tail(line), Append(cur, Head(line)))

\* a decimal numeral: digits after an optional sign
IsNumeral(f) ==
  LET digits == IF Len(f) > 0 /\ f[1] = 45 THEN Tail(f) ELSE f
  IN  Len(digits) > 0 /\ \A k \in 1..Len(digits) : IsDigit(digits[k])

\* a field with a letter "a" and no "N", which no number has
IsWord(f) == Includes(f, 97) /\ ~Includes(f, 78)

\* C11: when parseFields accepts the line, parseRow returns the DataRow of
\* parseNumber of each field, in order, if parseNumber accepts every field,
\* and the HeaderRow of the unchanged fields otherwise, whatever was parsed
\* before.
C11_Classification ==
  (rowCalls > 0 /\ ~IsNull(ParseFields(rowLine))) =>
    LET fs == Val(ParseFields(rowLine))
    IN  /\ ~IsNull(rowResult)
        /\ IF \A i \in 1..Len(fs) : ~IsNull(ParseNumber(fs[i]))
           THEN /\ Val(rowResult).kind = "data"
                /\ Len(Val(rowResult).values) = Len(fs)
                /\ \A i \in 1..Len(fs) :
                     Val(rowResult).values[i] = Val(ParseNumber(fs[i]))
           ELSE /\ Val(rowResult).kind = "header"
                /\ Val(rowResult).fields = fs

\* a second call classified " a,1" as a header with the space kept
C11_Witness ==
  /\ rowCalls = 2
  /\ rowLine = <<32, 97, COMMA, 49>>
  /\ rowResult = Some(HeaderRow(<<(<<32, 97>>), (<<49>>)>>))

NumeralsAndOneWord(line) ==
  LET fs == CommaFields(line, <<>>)
  IN  /\ ~Includes(line, QUOTE)
      /\ \A i \in 1..Len(fs) : IsNumeral(fs[i]) \/ IsWord(fs[i])
      /\ Cardinality({i \in 1..Len(fs) : IsWord(fs[i])}) = 1

\* C13 as stated: for a line of numeric fields and one field that is not a
\* number, without comma and quote, parseRow returns a HeaderRow when the
\* line has two or more fields and null when it has one.
C13_Original ==
  (rowCalls > 0 /\ NumeralsAndOneWord(rowLine)) =>
    IF Len(CommaFields(rowLine, <<>>)) >= 2
    THEN ~IsNull(rowResult) /\ Val(rowResult).kind = "header"
    ELSE IsNull(rowResult)

\* C13: for a line of numeric fields and one field that is not a number,
\* without comma, quote, CR and LF, parseRow returns the HeaderRow of the
\* fields when the line has two or more fields and null when it has one; with
\* a CR or LF in it the line is refused.
C13_HeaderOrRefused ==
  (rowCalls > 0 /\ NumeralsAndOneWord(rowLine)) =>
    IF Includes(rowLine, RETURN) \/ Includes(rowLine, NEWLINE)
    THEN IsNull(rowResult)
    ELSE IF Len(CommaFields(rowLine, <<>>)) >= 2
         THEN rowResult = Some(HeaderRow(CommaFields(rowLine, <<>>)))
         ELSE IsNull(rowResult)

\* "1,a" gave a header and, in another call, "a" was refused
C13_Witness ==
  /\ rowCalls > 0
  /\ \/ /\ rowLine = <<49, COMMA, 97>>
        /\ rowResult = Some(HeaderRow(<<(<<49>>), (<<97>>)>>))
     \/ /\ rowLine = <<97>>
        /\ IsNull(rowResult)

\* C14: a line of numerals that ends with one comma after the last numeral
\* is parsed as the DataRow of the numerals, without the empty field.
C14_TrailingComma ==
  (rowCalls > 0 /\ Len(rowLine) >= 2 /\ rowLine[Len(rowLine)] = COMMA
     /\ ~Includes(rowLine, QUOTE)
     /\ \A i \in 1..Len(CommaFields(SubSeq(rowLine, 1, Len(rowLine) - 1), <<>>)) :
          IsNumeral(CommaFields(SubSeq(rowLine, 1, Len(rowLine) - 1), <<>>)[i])) =>
    LET fs == CommaFields(SubSeq(rowLine, 1, Len(rowLine) - 1), <<>>)
    IN  rowResult = Some(DataRow([i \in 1..Len(fs) |-> Val(ParseNumber(fs[i]))]))

-----------------------------------------------------------------------------
(* Properties of the slices of a TableBuffer *)

\* what a caller can observe of a buffer
Observable(b) ==
  [key |-> BufKey(b), columnNames |-> b.columnNames, range |-> BufRange(b),
   slice |-> BufSlice(b, Null)]

\* C17: after clear() the key, columnNames, range and slice() of the buffer
\* are those of a new buffer with the same rowLimit, and after any pushes
\* that follow the buffer and a new buffer given the same pushes show the same.
C17_ClearIsFresh ==
  /\ Observable(vwBuf) = Observable(vwTwin)
  /\ vwBuf = vwTwin
  /\ vwOp = "clear" =>
       /\ BufKey(vwBuf) = 0
       /\ IsNull(vwBuf.columnNames)
       /\ BufRange(vwBuf) = range(0, 0)
       /\ BufSlice(vwBuf, Null).status = "null"
       /\ Observable(vwBuf) = Observable(NewTableBuffer(vwBuf.rowLimit))

\* a buffer with a table was cleared and then given a data row
C17_Witness ==
  /\ vwOp = "data"
  /\ ~IsNull(vwHeld)
  /\ Val(vwHeld).cleared
  /\ Val(vwHeld).slice.key = 2
  /\ BufKey(vwBuf) = 1
  /\ vwBuf.rowEnd = 1

\* C19: every column of a slice has the key "{tableKey}-{columnName}"; a
\* slice taken in the same table as a slice kept earlier gives the same key
\* to the same column, and a slice taken after a new table was started (by a
\* header, also one with the same names) gives its columns keys that no
\* column of the earlier slice has.
C19_KeysTellGenerations ==
  (vwOp = "slice" /\ ~IsNull(vwSeen)) =>
    LET new == Val(vwSeen).slice
    IN  /\ \A i \in 1..Len(new.columns) :
             new.columns[i].key = DecimalString(new.key) \o <<45>> \o new.columnNames[i]
        /\ ~IsNull(vwHeld) =>
             LET old == Val(vwHeld).slice
             IN  \A i \in 1..Len(old.columns) : \A j \in 1..Len(new.columns) :
                   IF Val(vwHeld).reset
                   THEN old.columns[i].key # new.columns[j].key
                   ELSE (old.columns[i].name = new.columns[j].name)
                          = (old.columns[i].key = new.columns[j].key)

\* C19 when clear() was not called between the two slices
C19_KeysWithoutClear ==
  (vwOp = "slice" /\ ~IsNull(vwSeen)) =>
    LET new == Val(vwSeen).slice
    IN  /\ \A i \in 1..Len(new.columns) :
             new.columns[i].key = DecimalString(new.key) \o <<45>> \o new.columnNames[i]
        /\ (~IsNull(vwHeld) /\ ~Val(vwHeld).cleared) =>
             LET old == Val(vwHeld).slice
             IN  \A i \in 1..Len(old.columns) : \A j \in 1..Len(new.columns) :
                   IF Val(vwHeld).reset
                   THEN old.columns[i].key # new.columns[j].key
                   ELSE (old.columns[i].name = new.columns[j].name)
                          = (old.columns[i].key = new.columns[j].key)

\* C20: the values, range, key and columnNames of a slice kept by a caller
\* read the same after any later push or clear() as when slice() returned it,
\* and slice() leaves the buffer as it was.
C20_SliceIsSnapshot ==
  /\ [](~IsNull(vwHeld) =>
          \A i \in 1..Len(Val(vwHeld).values) :
            /\ ReadValues(Val(vwHeld).values[i], vwBuf)
                 = Val(vwHeld).slice.columns[i].values
            /\ Len(Val(vwHeld).slice.columns[i].values)
                 = RangeLength(Val(vwHeld).slice.range))
  /\ [][/\ vwOp' = "slice" => vwBuf' = vwBuf
        /\ (vwOp' # "hold" /\ ~IsNull(vwHeld)) =>
             /\ ~IsNull(vwHeld')
             /\ Val(vwHeld').slice = Val(vwHeld).slice]_vars

\* a slice with a row is kept and the row has since been evicted from the
\* storage of the same table
C20_Witness ==
  /\ ~IsNull(vwHeld)
  /\ ~Val(vwHeld).reset
  /\ ~Val(vwHeld).cleared
  /\ RangeLength(Val(vwHeld).slice.range) >= 1
  /\ vwBuf.rowStart > Val(vwHeld).slice.range.start

-----------------------------------------------------------------------------
(* Properties of the tabs and of the SerialPortDevice *)

\* C35: a connection calls port.close() at most once, and exactly once when
\* it is over after port.open() resolved; at the call no task of the device
\* is left in #tasks and every promise made so far has settled;
\* deviceClosed() is called only by the step in which a port.close() that was
\* called on an open port resolves; and the step that finds the awaited task
\* rejected, or port.close() rejected, calls deviceCrashed()
C35_CloseAfterTasks ==
  [][\A t \in TabIds :
       /\ \A c \in 1..Len(tabs'[t].conns) :
            LET before == IF c <= Len(tabs[t].conns) THEN tabs[t].conns[c]
                          ELSE tabs'[t].conns[c]
                after == tabs'[t].conns[c]
            IN  /\ after.closeCalls <= 1
                /\ after.closeCalls = 1 => after.opened
                /\ after.pc = "done" /\ after.opened => after.closeCalls = 1
                /\ after.closeCalls > before.closeCalls =>
                     /\ tabs'[t].tasks = <<>>
                     /\ \A p \in 1..Len(tabs'[t].promises) :
                          tabs'[t].promises[p].state # "pending"
                /\ before.pc = "await" /\ after # before
                     /\ tabs[t].promises[before.cur].state = "rejected" =>
                     tabsLast'.call = "deviceCrashed"
                /\ before.pc = "close" /\ after.pc = "done" /\ ~before.ok =>
                     tabsLast'.call = "deviceCrashed"
       /\ tabsLast'.call = "deviceClosed" /\ tabsLast'.tab = t =>
            \E c \in 1..Len(tabs[t].conns) :
              /\ tabs[t].conns[c].pc = "close" /\ tabs[t].conns[c].ok
              /\ tabs'[t].conns[c].pc = "done"
              /\ tabs[t].port = "closing" /\ tabs'[t].port = "closed"]_vars

\* a connection that awaited its row-parsing task and a reader.cancel()
\* promise has closed the port and reported deviceClosed
C35_Witness ==
  \E t \in TabIds :
    /\ tabsLast = [tab |-> t, op |-> "closeSettled", call |-> "deviceClosed"]
    /\ tabs[t].state.status = "closed"
    /\ \E p, q \in 1..Len(tabs[t].promises) :
         /\ tabs[t].promises[p].kind = "parse"
         /\ tabs[t].promises[q].kind = "cancel"
         /\ tabs[t].promises[q].state = "fulfilled"

\* C36: no reader of a connection that is over is left in #readers
C36_NoReaderOfEndedConnection ==
  \A t \in TabIds :
    \A i \in 1..Len(tabs[t].readers) :
      tabs[t].conns[tabs[t].promises[tabs[t].readers[i]].conn].pc # "done"

\* C31: while the status is "closed" the tab's port is closed and no
\* connection of its device is still at work
C31_ClosedAfterDeviceClosed ==
  \A t \in TabIds :
    tabs[t].state.status = "closed" =>
      /\ tabs[t].port = "closed"
      /\ \A c \in 1..Len(tabs[t].conns) : tabs[t].conns[c].pc = "done"

\* C34: a tab calls port.open(), or has the port open, only while the other
\* tab's port is closed
C34_PortNeverShared ==
  \A t \in TabIds, o \in TabIds :
    t # o /\ tabs[t].port \in {"opening", "open"} => tabs[o].port = "closed"

\* C32: a status "closing" is followed by "closed" or "portGone"
C32_ClosingEnds ==
  \A t \in TabIds :
    (tabs[t].state.status = "closing")
      ~> (tabs[t].state.status \in {"closed", "portGone"})

=============================================================================
